---- MODULE Spec2Model ----
(***************************************************************************)
(* Verification model of the JARVIS commercial bot (soportecyclops/tienda21)*)
(*                                                                         *)
(* Part 1: session data model, in-memory session store, session manager,   *)
(*         hand-off state transition and the chat webhook handler.         *)
(* Part 2: webhook signature verification and the Tienda Nube webhook.     *)
(*                                                                         *)
(* Python objects are modelled as a heap: a Session object is an index of  *)
(* `heap`; the store and the in-flight requests hold references (indices)  *)
(* to the same object, as the Python code does.  Coroutines run without    *)
(* interleaving between two real suspension points, so every action below  *)
(* is the code between two awaits that actually suspend.                   *)
(***************************************************************************)
EXTENDS Integers, Sequences, FiniteSets, TLC

VARIABLES
    now,        \* datetime.now(), in seconds since process start
    heap,       \* the Session objects created so far (object identity = index)
    store,      \* app.context.store._SESSIONS : user_id -> Session reference
    reqs,       \* in-flight POST /webhook/chat requests
    metrics,    \* MetricsCollector._counters for the webhook metrics
    resp,       \* the most recent HTTP answer of the chat endpoint
    last,       \* observation of the most recent API call and its return value
    dead,       \* references of sessions that were closed or found expired
    mustRenew,  \* per user, the session closed by close_session since the user's last get_or_create_session
    secret,     \* settings.TIENDANUBE_WEBHOOK_SECRET
    hook,       \* the most recent HTTP answer of the Tienda Nube endpoint
    delivered,  \* invocations of process_new_order / process_product_update so far
    sigcheck,   \* the most recent direct call of verify_webhook_signature
    llmcall,    \* the most recent direct call of LLMAdapter.process_message
    rulecheck,  \* the most recent direct call of RulesEngine.check_message
    generated,  \* the most recent direct call of ResponseGenerator.generate
    chatpayload, \* the most recent construction of WebhookChatPayload
    collector,  \* a MetricsCollector: _metrics, _counters, _timers, _lock
    flows,      \* the flows that call the collector: each one's call and position
    docs,       \* the documentation tree normalize.py works on, and its runs
    handoff,    \* the most recent direct call of the hand-off manager or notifier
    catalog     \* the catalog loader: local storage, requests made, last result

sessionVars == <<now, heap, store, reqs, resp, last, dead, mustRenew>>
hookVars    == <<secret, hook, delivered, sigcheck>>
unitVars    == <<llmcall, rulecheck, generated, chatpayload, collector, flows,
                 docs, handoff, catalog>>

vars == <<now, heap, store, reqs, metrics, resp, last, dead, mustRenew,
          secret, hook, delivered, sigcheck, llmcall, rulecheck, generated,
          chatpayload, collector, flows, docs,
          handoff, catalog>>

----------------------------------------------------------------------------
(* Bounds of the model *)

MaxSessions == 3        \* Session objects ever created
MaxMessages == 4        \* messages in all session histories together
MaxRequests == 2        \* chat requests ever received
MaxNow      == 1801     \* the clock stops here

(* Program constants *)

SESSION_TIMEOUT_MINUTES == 30

Users     == {"u1"}
Requests  == 1..MaxRequests
\* the clock advances by exactly the timeout or by one second more
TickSteps == {SESSION_TIMEOUT_MINUTES * 60, SESSION_TIMEOUT_MINUTES * 60 + 1}

NoSession == 0          \* Python None where a Session is expected

(* SessionState and MessageRole enumerations *)
SessionState == {"active", "idle", "closed", "escalated"}
MessageRole  == {"user", "assistant", "system"}

Message(role, content, timestamp) ==
    [role |-> role, content |-> content, timestamp |-> timestamp]

Session(session_id, user_id, t) ==
    [session_id  |-> session_id,
     user_id     |-> user_id,
     state       |-> "active",
     created_at  |-> t,
     last_access |-> t,
     messages    |-> <<>>]

----------------------------------------------------------------------------
(* app/context/store.py *)

\* variant of get_session without the state check
get_session_anystate(h, st, user_id) ==
    [store |-> st, ret |-> st[user_id]]

\* get_session: returns the reference only when the object is active,
\* otherwise evicts the entry.  Result: the new mapping and the return value.
get_session(h, st, user_id) ==
    LET session == st[user_id] IN
    IF session = NoSession
    THEN [store |-> st, ret |-> NoSession]
    ELSE IF h[session].state # "active"
         THEN [store |-> [st EXCEPT ![user_id] = NoSession], ret |-> NoSession]
         ELSE [store |-> st, ret |-> session]

\* variant of save_session that stores a session whatever its state
save_session_anystate(h, st, session) ==
    [st EXCEPT ![h[session].user_id] = session]

\* variant of save_session with a version check: it writes only when the
\* entry is empty or already holds the session it is given
save_session_versioned(h, st, session) ==
    IF st[h[session].user_id] \notin {NoSession, session}
    THEN st
    ELSE IF h[session].state = "closed"
         THEN [st EXCEPT ![h[session].user_id] = NoSession]
         ELSE [st EXCEPT ![h[session].user_id] = session]

\* save_session: a closed session is removed (by user id), any other stored.
save_session(h, st, session) ==
    IF h[session].state = "closed"
    THEN [st EXCEPT ![h[session].user_id] = NoSession]
    ELSE [st EXCEPT ![h[session].user_id] = session]

----------------------------------------------------------------------------
(* app/session/manager.py *)

\* variant of _is_session_valid that never looks at the clock
_is_session_valid_noexpiry(s, t) == s.state = "active"

\* variant of _is_session_valid that expires a session at the boundary
_is_session_valid_strict(s, t) ==
    IF s.state # "active"
    THEN FALSE
    ELSE t < s.last_access + SESSION_TIMEOUT_MINUTES * 60

_is_session_valid(s, t) ==
    IF s.state # "active"
    THEN FALSE
    ELSE t <= s.last_access + SESSION_TIMEOUT_MINUTES * 60

\* uuid.uuid4(): an identifier no earlier session carries
uuid4(h) == Len(h) + 1

_create_new_session(h, st, user_id, t) ==
    LET h1  == Append(h, Session(uuid4(h), user_id, t))
        ref == Len(h1)
    IN  [heap |-> h1, store |-> save_session(h1, st, ref), ret |-> ref,
         created |-> TRUE]

get_or_create_session(h, st, user_id, t) ==
    LET g == get_session(h, st, user_id) IN
    IF g.ret # NoSession
    THEN IF _is_session_valid(h[g.ret], t)
         THEN LET h1 == [h EXCEPT ![g.ret].last_access = t]
              IN  [heap |-> h1, store |-> save_session(h1, g.store, g.ret),
                   ret |-> g.ret, created |-> FALSE]
         ELSE LET h1 == [h EXCEPT ![g.ret].state = "closed"]
              IN  _create_new_session(h1, save_session(h1, g.store, g.ret),
                                      user_id, t)
    ELSE _create_new_session(h, g.store, user_id, t)

\* variant of update_session that appends the assistant message first
update_session_swapped(h, st, session, user_message, bot_response, t) ==
    LET m1 == Append(h[session].messages, Message("assistant", bot_response, t))
        m2 == Append(m1, Message("user", user_message, t))
        h1 == [h EXCEPT ![session].messages = m2, ![session].last_access = t]
    IN  [heap |-> h1, store |-> save_session(h1, st, session)]

\* variant of update_session that appends the user message only
update_session_useronly(h, st, session, user_message, bot_response, t) ==
    LET h1 == [h EXCEPT ![session].messages =
                      Append(@, Message("user", user_message, t)),
                        ![session].last_access = t]
    IN  [heap |-> h1, store |-> save_session(h1, st, session), ret |-> session]

update_session(h, st, session, user_message, bot_response, t) ==
    LET m1 == Append(h[session].messages, Message("user", user_message, t))
        m2 == Append(m1, Message("assistant", bot_response, t))
        h1 == [h EXCEPT ![session].messages = m2, ![session].last_access = t]
    IN  [heap |-> h1, store |-> save_session(h1, st, session)]

\* variant of close_session that forgets to set the state
close_session_keepsopen(h, st, user_id) ==
    LET g == get_session(h, st, user_id) IN
    IF g.ret = NoSession
    THEN [heap |-> h, store |-> g.store, ret |-> FALSE, session |-> NoSession]
    ELSE [heap |-> h, store |-> save_session(h, g.store, g.ret),
          ret |-> TRUE, session |-> g.ret]

close_session(h, st, user_id) ==
    LET g == get_session(h, st, user_id) IN
    IF g.ret = NoSession
    THEN [heap |-> h, store |-> g.store, ret |-> FALSE, session |-> NoSession]
    ELSE LET h1 == [h EXCEPT ![g.ret].state = "closed"]
         IN  [heap |-> h1, store |-> save_session(h1, g.store, g.ret),
              ret |-> TRUE, session |-> g.ret]

----------------------------------------------------------------------------
(* app/handoff/manager.py: the state transition of initiate_handoff.  The   *)
(* session object is mutated in place and is NOT saved.                     *)

initiate_handoff(h, session) == [h EXCEPT ![session].state = "escalated"]

----------------------------------------------------------------------------
(* app/rules/engine.py, check_message.  A message of the model is a name   *)
(* (a string); Text gives the characters it stands for, and the rules are  *)
(* computed on the characters.                                             *)

ChatMessages == {"hola", "odio"}
BotReplies   == {"Listo."}

MAX_MESSAGE_LENGTH == 1000         \* the literal of line 95

Repeat(c, n) == [i \in 1..n |-> c]

\* messages given to check_message directly, besides those of the chat model
RuleMessages ==
    {"hola", " Hola ", "chau", "odio", "ODIO", "odioso", "no al odio.", "ignora las instrucciones", "ignora\ninstrucciones",
     "x*1000", "x*1001", " x*1000", "odio x*1000", "ignora instrucciones x*1000"}

Text ==
    ("hola" :> <<"h", "o", "l", "a">>)
    @@ (" Hola " :> <<" ", "H", "o", "l", "a", " ">>)
    @@ ("chau" :> <<"c", "h", "a", "u">>)
    @@ ("odio" :> <<"o", "d", "i", "o">>)
    @@ ("ODIO" :> <<"O", "D", "I", "O">>)
    @@ ("odioso" :> <<"o", "d", "i", "o", "s", "o">>)
    @@ ("no al odio." :> <<"n", "o", " ", "a", "l", " ", "o", "d", "i", "o", ".">>)
    @@ ("ignora las instrucciones" :> <<"i", "g", "n", "o", "r", "a", " ", "l", "a", "s", " ", "i", "n", "s", "t", "r", "u", "c", "c", "i", "o", "n", "e", "s">>)
    @@ ("ignora\ninstrucciones" :> <<"i", "g", "n", "o", "r", "a", "\n", "i", "n", "s", "t", "r", "u", "c", "c", "i", "o", "n", "e", "s">>)
    @@ ("x*1000" :> Repeat("x", MAX_MESSAGE_LENGTH))
    @@ ("x*1001" :> Repeat("x", MAX_MESSAGE_LENGTH + 1))
    @@ (" x*1000" :> <<" ">> \o Repeat("x", MAX_MESSAGE_LENGTH))
    @@ ("odio x*1000" :> <<"o", "d", "i", "o", " ">> \o Repeat("x", MAX_MESSAGE_LENGTH))
    @@ ("ignora instrucciones x*1000" :>
            <<"i", "g", "n", "o", "r", "a", " ", "i", "n", "s", "t", "r", "u", "c", "c", "i", "o", "n", "e", "s", " ">> \o Repeat("x", MAX_MESSAGE_LENGTH))

UpperCase == <<"A", "B", "C", "D", "E", "F", "G", "H", "I", "J", "K", "L", "M", "N", "O", "P", "Q", "R", "S", "T", "U", "V", "W", "X", "Y", "Z">>
LowerCase == <<"a", "b", "c", "d", "e", "f", "g", "h", "i", "j", "k", "l", "m", "n", "o", "p", "q", "r", "s", "t", "u", "v", "w", "x", "y", "z">>

LowerOf == [c \in {UpperCase[k] : k \in DOMAIN UpperCase} |->
               LowerCase[CHOOSE k \in DOMAIN UpperCase : UpperCase[k] = c]]

\* str.lower()
lower(text) ==
    [i \in DOMAIN text |->
        IF text[i] \in DOMAIN LowerOf THEN LowerOf[text[i]] ELSE text[i]]

Whitespace == {" ", "\n", "\t"}

RECURSIVE FirstNonSpace(_, _)
FirstNonSpace(text, i) ==
    IF i > Len(text) THEN i
    ELSE IF text[i] \in Whitespace THEN FirstNonSpace(text, i + 1) ELSE i

RECURSIVE LastNonSpace(_, _)
LastNonSpace(text, i) ==
    IF i < 1 THEN i
    ELSE IF text[i] \in Whitespace THEN LastNonSpace(text, i - 1) ELSE i

\* str.strip()
strip(text) == SubSeq(text, FirstNonSpace(text, 1), LastNonSpace(text, Len(text)))

\* characters that are not \w for the regular expressions
NonWordChars == Whitespace \cup {".", ",", "!", "?", "-"}

MatchAt(text, w, i) ==
    /\ i + Len(w) - 1 <= Len(text)
    /\ text[i] = w[1]
    /\ SubSeq(text, i, i + Len(w) - 1) = w

\* \b(w)\b found at position i
WordAt(text, w, i) ==
    /\ i = 1 \/ text[i - 1] \in NonWordChars
    /\ MatchAt(text, w, i)
    /\ i + Len(w) - 1 = Len(text) \/ text[i + Len(w)] \in NonWordChars

\* get_forbidden_patterns(), in the order of the dictionary
ForbiddenPatterns ==
    <<[name |-> "discrimination",
       words |-> {<<"d", "i", "s", "c", "r", "i", "m", "i", "n", "a", "t", "o", "r", "i", "o">>,
                  <<"r", "a", "c", "i", "s", "t", "a">>,
                  <<"s", "e", "x", "i", "s", "t", "a">>,
                  <<"h", "o", "m", "o", "f", "ó", "b", "i", "c", "o">>,
                  <<"o", "d", "i", "o">>}],
      [name |-> "profanity",
       words |-> {<<"m", "i", "e", "r", "d", "a">>,
                  <<"i", "d", "i", "o", "t", "a">>,
                  <<"i", "m", "b", "é", "c", "i", "l">>,
                  <<"e", "s", "t", "ú", "p", "i", "d", "o">>}],
      [name |-> "illegal",
       words |-> {<<"d", "r", "o", "g", "a", "s">>,
                  <<"a", "r", "m", "a", "s">>,
                  <<"r", "o", "b", "a", "r">>,
                  <<"f", "r", "a", "u", "d", "e">>}],
      [name |-> "personal_data",
       words |-> {<<"d", "n", "i">>,
                  <<"d", "o", "c", "u", "m", "e", "n", "t", "o">>,
                  <<"c", "o", "n", "t", "r", "a", "s", "e", "ñ", "a">>,
                  <<"t", "a", "r", "j", "e", "t", "a">>}]>>

\* pattern.search(normalized) for a forbidden pattern
\* the positions at which a word begins
WordStarts(text) ==
    {i \in DOMAIN text : text[i] \notin NonWordChars
                          /\ (i = 1 \/ text[i - 1] \in NonWordChars)}

\* pattern.search(normalized) for a forbidden pattern; every alternative of
\* the pattern begins with a word character, so a match begins a word
SearchForbidden(pattern, text, starts) ==
    \E i \in starts : \E w \in pattern.words : WordAt(text, w, i)

\* prompt_injection_patterns: the literal parts of each pattern, which the
\* pattern joins with `.*`
InjectionPatterns ==
    <<<<<<"i", "g", "n", "o", "r", "e">>, <<"i", "n", "s", "t", "r", "u", "c", "t", "i", "o", "n", "s">>>>,
      <<<<"f", "o", "r", "g", "e", "t">>, <<"p", "r", "e", "v", "i", "o", "u", "s">>>>,
      <<<<"s", "y", "s", "t", "e", "m">>, <<"p", "r", "o", "m", "p", "t">>>>,
      <<<<"a", "c", "t">>, <<"a", "s">>, <<"d", "i", "f", "f", "e", "r", "e", "n", "t">>>>,
      <<<<"r", "o", "l", "e", "p", "l", "a", "y">>, <<"a", "s">>>>,
      <<<<"i", "g", "n", "o", "r", "a">>, <<"i", "n", "s", "t", "r", "u", "c", "c", "i", "o", "n", "e", "s">>>>,
      <<<<"o", "l", "v", "i", "d", "a">>, <<"i", "n", "s", "t", "r", "u", "c", "c", "i", "o", "n", "e", "s">>>>,
      <<<<"a", "c", "t", "ú", "a">>, <<"c", "o", "m", "o">>>>,
      <<<<"c", "o", "m", "p", "o", "r", "t", "a", "t", "e">>, <<"c", "o", "m", "o">>>>>>

\* the parts occur in this order from position start on, on one line
RECURSIVE SearchParts(_, _, _)
SearchParts(text, parts, start) ==
    IF parts = <<>> THEN TRUE
    ELSE \E i \in start..Len(text) :
            /\ MatchAt(text, Head(parts), i)
            /\ \A k \in start..(i - 1) : text[k] # "\n"
            /\ SearchParts(text, Tail(parts), i + Len(Head(parts)))

\* the characters a prompt injection pattern can begin with
InjectionFirstChars ==
    {InjectionPatterns[k][1][1] : k \in DOMAIN InjectionPatterns}

\* the positions at which a match of a prompt injection pattern can begin
InjectionStarts(text) == {i \in DOMAIN text : text[i] \in InjectionFirstChars}

\* pattern.search(normalized) for a prompt injection pattern
SearchInjection(parts, text, starts) ==
    \E i \in starts :
        /\ MatchAt(text, Head(parts), i)
        /\ SearchParts(text, Tail(parts), i + Len(Head(parts)))

NoneResponse == "<None>"            \* RuleResult.response left at None

\* confidence in hundredths
RuleResult(is_violation, rule_name, response, confidence) ==
    [is_violation |-> is_violation, rule_name |-> rule_name,
     response |-> response, confidence |-> confidence]

\* variant of LastUserMessages that keeps the order of the history
LastUserMessages_oldestfirst(msgs) ==
    SelectSeq(msgs, LAMBDA m : m.role = "user")

\* [m for m in reversed(session.messages) if m.role == "user"]
LastUserMessages(msgs) ==
    LET users == SelectSeq(msgs, LAMBDA m : m.role = "user")
    IN  [i \in 1..Len(users) |-> users[Len(users) + 1 - i]]

\* variant of TooLong that fires from 1000 characters on
TooLong_from1000(message) == Len(Text[message]) >= MAX_MESSAGE_LENGTH

\* line 95: len(message) > 1000, on the message as received
TooLong(message) == Len(Text[message]) > MAX_MESSAGE_LENGTH

\* variant of check_message that applies the length rule before the
\* forbidden patterns
check_message_lengthfirst(message, s, t) ==
    LET normalized == strip(lower(Text[message]))
        starts     == WordStarts(normalized)
        hits       == SelectSeq(ForbiddenPatterns,
                                LAMBDA p : SearchForbidden(p, normalized, starts))
        last_user_messages == LastUserMessages(s.messages)
        recent     == SelectSeq(s.messages,
                        LAMBDA m : m.role = "user" /\ t - m.timestamp < 60)
    IN
    IF TooLong(message)
    THEN RuleResult(TRUE, "message_too_long", "Tu mensaje es demasiado largo.", 100)
    ELSE IF hits # <<>>
    THEN RuleResult(TRUE, "forbidden_pattern_" \o hits[1].name,
                    "No puedo procesar ese tipo de solicitud.", 95)
    ELSE IF /\ last_user_messages # <<>>
            /\ strip(lower(Text[last_user_messages[1].content])) = normalized
    THEN RuleResult(TRUE, "repeated_message", "Parece que ya enviaste ese mensaje.", 80)
    ELSE IF Len(recent) >= 3
    THEN RuleResult(TRUE, "spam_detected", "Estás enviando mensajes muy rápido.", 75)
    ELSE IF LET istarts == InjectionStarts(normalized) IN
            \E k \in DOMAIN InjectionPatterns :
                SearchInjection(InjectionPatterns[k], normalized, istarts)
    THEN RuleResult(TRUE, "prompt_injection", "No puedo cambiar mis instrucciones.", 85)
    ELSE RuleResult(FALSE, "all_rules_passed", NoneResponse, 100)

\* variant of check_message whose spam rule counts a message sent exactly
\* 60 seconds before the check
check_message_upto60(message, s, t) ==
    LET normalized == strip(lower(Text[message]))
        starts     == WordStarts(normalized)
        hits       == SelectSeq(ForbiddenPatterns,
                                LAMBDA p : SearchForbidden(p, normalized, starts))
        last_user_messages == LastUserMessages(s.messages)
        recent     == SelectSeq(s.messages,
                        LAMBDA m : m.role = "user" /\ t - m.timestamp <= 60)
    IN
    IF hits # <<>>
    THEN RuleResult(TRUE, "forbidden_pattern_" \o hits[1].name,
                    "No puedo procesar ese tipo de solicitud.", 95)
    ELSE IF TooLong(message)
    THEN RuleResult(TRUE, "message_too_long", "Tu mensaje es demasiado largo.", 100)
    ELSE IF /\ last_user_messages # <<>>
            /\ strip(lower(Text[last_user_messages[1].content])) = normalized
    THEN RuleResult(TRUE, "repeated_message", "Parece que ya enviaste ese mensaje.", 80)
    ELSE IF Len(recent) >= 3
    THEN RuleResult(TRUE, "spam_detected", "Estás enviando mensajes muy rápido.", 75)
    ELSE IF LET istarts == InjectionStarts(normalized) IN
            \E k \in DOMAIN InjectionPatterns :
                SearchInjection(InjectionPatterns[k], normalized, istarts)
    THEN RuleResult(TRUE, "prompt_injection", "No puedo cambiar mis instrucciones.", 85)
    ELSE RuleResult(FALSE, "all_rules_passed", NoneResponse, 100)

check_message(message, s, t) ==
    LET normalized == strip(lower(Text[message]))
        starts     == WordStarts(normalized)
        hits       == SelectSeq(ForbiddenPatterns,
                                LAMBDA p : SearchForbidden(p, normalized, starts))
        last_user_messages == LastUserMessages(s.messages)
        recent     == SelectSeq(s.messages,
                        LAMBDA m : m.role = "user" /\ t - m.timestamp < 60)
    IN
    IF hits # <<>>
    THEN RuleResult(TRUE, "forbidden_pattern_" \o hits[1].name,
                    "No puedo procesar ese tipo de solicitud.", 95)
    ELSE IF TooLong(message)
    THEN RuleResult(TRUE, "message_too_long", "Tu mensaje es demasiado largo.", 100)
    ELSE IF /\ last_user_messages # <<>>
            /\ strip(lower(Text[last_user_messages[1].content])) = normalized
    THEN RuleResult(TRUE, "repeated_message", "Parece que ya enviaste ese mensaje.", 80)
    ELSE IF Len(recent) >= 3
    THEN RuleResult(TRUE, "spam_detected", "Estás enviando mensajes muy rápido.", 75)
    ELSE IF LET istarts == InjectionStarts(normalized) IN
            \E k \in DOMAIN InjectionPatterns :
                SearchInjection(InjectionPatterns[k], normalized, istarts)
    THEN RuleResult(TRUE, "prompt_injection", "No puedo cambiar mis instrucciones.", 85)
    ELSE RuleResult(FALSE, "all_rules_passed", NoneResponse, 100)

----------------------------------------------------------------------------
(* app/llm/adapter.py and app/responses/generator.py as seen by the router *)

LLM_FALLBACK_TEXT ==
    "Lo siento, estoy experimentando dificultades técnicas. Por favor, intenta más tarde."

\* what process_message can return: a provider's text or the fixed apology
LLMOutputs == {"Claro", LLM_FALLBACK_TEXT}

EndsWithPunctuation == [o \in LLMOutputs |-> o # "Claro"]

\* generate(): no command, no truncation for these texts; _format_response
\* appends a full stop when the text does not end with punctuation
generate(llm_response) ==
    IF EndsWithPunctuation[llm_response] THEN llm_response
    ELSE llm_response \o "."

----------------------------------------------------------------------------
(* app/responses/generator.py on the characters of the text: generate     *)
(* from the command-expanded text on, _truncate_response, _format_response *)

MAX_RESPONSE_LENGTH == 500

TRUNCATION_NOTICE ==
    <<"\n", "\n", "(", "R", "e", "s", "p", "u", "e", "s", "t", "a", " ",
      "t", "r", "u", "n", "c", "a", "d", "a", " ", "p", "o", "r", " ", "l",
      "o", "n", "g", "i", "t", "u", "d", ".", " ", "¿", "H", "a", "y", " ",
      "a", "l", "g", "o", " ", "e", "s", "p", "e", "c", "í", "f", "i", "c",
      "o", " ", "q", "u", "e", " ", "q", "u", "i", "e", "r", "a", "s", " ",
      "s", "a", "b", "e", "r", "?", ")">>

\* str.rfind over several characters, 1-based; 0 when none occurs
LastIndexOf(text, chars) ==
    LET at == {i \in DOMAIN text : text[i] \in chars}
    IN  IF at = {} THEN 0 ELSE CHOOSE i \in at : \A j \in at : j <= i

\* variant of _truncate_response that cuts at a boundary as soon as the cut
\* retains 80% of max_response_length
_truncate_response_atleast(response) ==
    LET truncated == SubSeq(response, 1, MAX_RESPONSE_LENGTH)
        cut       == LastIndexOf(truncated, {".", "\n"})
    IN  IF cut * 10 >= MAX_RESPONSE_LENGTH * 8
        THEN SubSeq(truncated, 1, cut) \o TRUNCATION_NOTICE
        ELSE truncated \o TRUNCATION_NOTICE

\* cut is cut_pos + 1; cut_pos > max_response_length * 0.8
_truncate_response(response) ==
    LET truncated == SubSeq(response, 1, MAX_RESPONSE_LENGTH)
        cut       == LastIndexOf(truncated, {".", "\n"})
    IN  IF (cut - 1) * 10 > MAX_RESPONSE_LENGTH * 8
        THEN SubSeq(truncated, 1, cut) \o TRUNCATION_NOTICE
        ELSE truncated \o TRUNCATION_NOTICE

\* where the match of \n\s*\n that begins at the newline at i ends: the
\* last newline that only whitespace separates from i; 0 when none
BlankLinesEnd(text, newlines, i) ==
    LET ends == {j \in newlines :
                    j > i /\ \A k \in (i + 1)..(j - 1) : text[k] \in Whitespace}
    IN  IF ends = {} THEN 0 ELSE CHOOSE j \in ends : \A k \in ends : k <= j

\* re.sub(r'\n\s*\n', '\n\n', text) from position i on, one newline at a time
RECURSIVE SubBlankLines(_, _, _, _)
SubBlankLines(text, newlines, i, out) ==
    LET ahead == {q \in newlines : q >= i}
    IN  IF ahead = {} THEN out \o SubSeq(text, i, Len(text))
        ELSE LET p == CHOOSE q \in ahead : \A r \in ahead : q <= r
                 j == BlankLinesEnd(text, newlines, p)
             IN  IF j > p
                 THEN SubBlankLines(text, newlines, j + 1,
                                    out \o SubSeq(text, i, p - 1) \o <<"\n", "\n">>)
                 ELSE SubBlankLines(text, newlines, p + 1,
                                    out \o SubSeq(text, i, p))

_format_response(response) ==
    LET newlines  == {i \in DOMAIN response : response[i] = "\n"}
        collapsed == SubBlankLines(response, newlines, 1, <<>>)
        ended     == IF collapsed # <<>>
                        /\ collapsed[Len(collapsed)] \notin {".", "!", "?"}
                     THEN Append(collapsed, ".")
                     ELSE collapsed
    IN  strip(ended)

\* lines 43-49, on the text _process_special_commands returned
generate_text(processed_response) ==
    _format_response(IF Len(processed_response) > MAX_RESPONSE_LENGTH
                     THEN _truncate_response(processed_response)
                     ELSE processed_response)

----------------------------------------------------------------------------
(* app/api/v1/schemas.py, WebhookChatPayload: a pydantic model with two    *)
(* str fields, extra="forbid" and str_strip_whitespace=True                *)

\* a keyword argument's value: its Python type and its characters
StrValue(chars) == [type |-> "str", chars |-> chars]
IntValue(chars) == [type |-> "int", chars |-> chars]

PayloadFields == {"user_id", "message"}

\* variant of WebhookChatPayload with pydantic's default extra="ignore"
WebhookChatPayload_ignoreextra(kwargs) ==
    LET missing == {<<f, "missing">> : f \in PayloadFields \ DOMAIN kwargs}
        nonstr  == {<<f, "string_type">> :
                       f \in {g \in PayloadFields \cap DOMAIN kwargs :
                                 kwargs[g].type # "str"}}
        errors  == missing \cup nonstr
    IN  IF errors # {} THEN [ok |-> FALSE, errors |-> errors]
        ELSE [ok |-> TRUE,
              user_id |-> strip(kwargs["user_id"].chars),
              message |-> strip(kwargs["message"].chars)]

\* WebhookChatPayload(**kwargs): the validation errors pydantic raises
\* together (ValidationError), or the model with its two stripped fields
WebhookChatPayload(kwargs) ==
    LET missing == {<<f, "missing">> : f \in PayloadFields \ DOMAIN kwargs}
        nonstr  == {<<f, "string_type">> :
                       f \in {g \in PayloadFields \cap DOMAIN kwargs :
                                 kwargs[g].type # "str"}}
        extra   == {<<f, "extra_forbidden">> : f \in DOMAIN kwargs \ PayloadFields}
        errors  == missing \cup nonstr \cup extra
    IN  IF errors # {} THEN [ok |-> FALSE, errors |-> errors]
        ELSE [ok |-> TRUE,
              user_id |-> strip(kwargs["user_id"].chars),
              message |-> strip(kwargs["message"].chars)]

----------------------------------------------------------------------------
(* app/observability/metrics.py, MetricsCollector. Durations are whole     *)
(* milliseconds; a mean is the pair <<sum, count>>.                        *)

MAX_TIMER_SAMPLES == 1000

Flows == {"f1", "f2"}

\* __init__: three empty dictionaries and a lock nobody holds
MetricsCollector ==
    [_metrics |-> <<>>, _counters |-> <<>>, _timers |-> <<>>, _lock |-> "free"]

\* dict.get(key, default), and the read of a defaultdict entry
Get(dict, key, default) == IF key \in DOMAIN dict THEN dict[key] ELSE default

Put(dict, key, value) == (key :> value) @@ dict

\* the body of increment
increment(c, metric_name, value) ==
    [c EXCEPT !._metrics = Put(@, metric_name, Get(@, metric_name, 0) + value),
              !._counters = Put(@, metric_name, Get(@, metric_name, 0) + 1)]

\* the body of set
set(c, metric_name, value) ==
    [c EXCEPT !._metrics = Put(@, metric_name, value)]

\* variant of record_time that keeps the first 1000 samples
record_time_keepfirst(c, metric_name, duration) ==
    LET appended == Append(Get(c._timers, metric_name, <<>>), duration)
        n        == Len(appended)
    IN  [c EXCEPT !._timers =
            Put(@, metric_name,
                IF n > MAX_TIMER_SAMPLES
                THEN SubSeq(appended, 1, MAX_TIMER_SAMPLES)
                ELSE appended)]

\* the body of record_time: append, then keep the last 1000
record_time(c, metric_name, duration) ==
    LET appended == Append(Get(c._timers, metric_name, <<>>), duration)
        n        == Len(appended)
    IN  [c EXCEPT !._timers =
            Put(@, metric_name,
                IF n > MAX_TIMER_SAMPLES
                THEN SubSeq(appended, n - MAX_TIMER_SAMPLES + 1, n)
                ELSE appended)]

\* sum() of times[lo..hi]
RECURSIVE SumOf(_, _, _)
SumOf(times, lo, hi) ==
    IF lo > hi THEN 0
    ELSE IF lo = hi THEN times[lo]
    ELSE LET mid == (lo + hi) \div 2
         IN  SumOf(times, lo, mid) + SumOf(times, mid + 1, hi)

\* variant of PercentileIndex with the nearest-rank index ceil(count * q) - 1
PercentileIndex_nearestrank(count, percent) ==
    ((count * percent + 99) \div 100) - 1

\* int(count * 0.5), int(count * 0.95), int(count * 0.99): the double
\* product truncates to floor(count * percent / 100) for every count up to
\* the 1000 samples a series retains
PercentileIndex(count, percent) == (count * percent) \div 100

ZeroStats ==
    [count |-> 0, avg |-> <<0, 1>>, min |-> 0, max |-> 0,
     p50 |-> 0, p95 |-> 0, p99 |-> 0]

\* the body of get_timer_stats; Python's index k is position k + 1
get_timer_stats(c, metric_name) ==
    LET times == Get(c._timers, metric_name, <<>>)
    IN  IF times = <<>> THEN ZeroStats
        ELSE LET times_sorted == SortSeq(times, LAMBDA a, b : a < b)
                 count        == Len(times_sorted)
             IN  [count |-> count,
                  avg   |-> <<SumOf(times_sorted, 1, count), count>>,
                  min   |-> times_sorted[1],
                  max   |-> times_sorted[count],
                  p50   |-> times_sorted[PercentileIndex(count, 50) + 1],
                  p95   |-> times_sorted[PercentileIndex(count, 95) + 1],
                  p99   |-> times_sorted[PercentileIndex(count, 99) + 1]]

\* lines 147-154 of get_all_metrics: the simple metrics of the result
SimpleMetrics(c) ==
    [name \in DOMAIN c._metrics |->
        [value |-> c._metrics[name], count |-> Get(c._counters, name, 0)]]

NoDump == [metrics |-> <<>>, stats |-> <<>>]

\* a flow: the call it makes (op, name, value), where it stands in it (pc),
\* what the call returned (stats, dump), the series get_all_metrics has
\* still to visit (todo) and the calls it has made
IdleFlow ==
    [pc |-> "idle", op |-> "none", name |-> "", value |-> 0, calls |-> 0,
     stats |-> ZeroStats, dump |-> NoDump, todo |-> {}, tmp |-> 0,
     log |-> <<>>]

----------------------------------------------------------------------------
(* normalize.py. A file's content is a sequence of pieces: "\n", a piece   *)
(* of ordinary text, or the stripped text of a canonical block, named as   *)
(* the script names the block.                                             *)

\* a triple-quoted block: a newline, the text, a newline
Block(name) == <<"\n", name, "\n">>

\* the `in` of two strings
Contains(content, piece) ==
    \E i \in 1..(Len(content) - Len(piece) + 1) :
        SubSeq(content, i, i + Len(piece) - 1) = piece

\* variant of prepend_block that writes without looking
prepend_block_unchecked(content, block) == block \o <<"\n", "\n">> \o content

prepend_block(content, block) ==
    IF Contains(content, strip(block)) THEN content
    ELSE block \o <<"\n", "\n">> \o content

append_block(content, block) ==
    IF Contains(content, strip(block)) THEN content
    ELSE content \o <<"\n", "\n">> \o block

Absent == <<"<no file>">>           \* the path does not exist
None   == "<None>"                  \* next(glob, None) found nothing

TecnicoBlocks ==
    <<"NO_LEARNING_CONTRACT", "OBSERVABILITY_CONTRACT", "RISKS_DECLARATION",
      "MATURITY_TABLE">>

\* lines 115-120
normalize_tecnico(files, tecnico) ==
    IF tecnico = None THEN files
    ELSE LET c0 == prepend_block(files[tecnico], Block("SOURCE_OF_TRUTH"))
             c1 == append_block(c0, Block(TecnicoBlocks[1]))
             c2 == append_block(c1, Block(TecnicoBlocks[2]))
             c3 == append_block(c2, Block(TecnicoBlocks[3]))
             c4 == append_block(c3, Block(TecnicoBlocks[4]))
         IN  [files EXCEPT ![tecnico] = c4]

\* lines 122-124, for one of comercial and readme
normalize_derived(files, f) ==
    IF f = None \/ files[f] = Absent THEN files
    ELSE [files EXCEPT ![f] = prepend_block(@, Block("DERIVED_NOTICE"))]

\* lines 126-127
normalize_guia(files, guia) ==
    IF guia = None THEN files
    ELSE [files EXCEPT ![guia] = prepend_block(@, Block("FASE_C_NOTICE"))]

\* main, from the files the globs found; the backups go to a directory of
\* their own and touch no target
main(files, tecnico, comercial, guia) ==
    normalize_guia(
        normalize_derived(
            normalize_derived(normalize_tecnico(files, tecnico), comercial),
            "README.md"),
        guia)

\* original: the files as they were before the first run
NoDocs == [files |-> <<>>, original |-> <<>>, tecnico |-> None,
           comercial |-> None, guia |-> None, runs |-> 0]

----------------------------------------------------------------------------
(* app/llm/adapter.py, LLMAdapter: provider chain and process_message      *)

FALLBACK_ORDER == <<"mistral", "groq", "openai">>

ProviderNames == {FALLBACK_ORDER[i] : i \in DOMAIN FALLBACK_ORDER}

\* how a provider's generate_response ends: with a text, or raising
\* httpx.HTTPStatusError or httpx.TimeoutException (both are Exceptions)
ProviderOutcomes == {"ok", "http_error", "timeout"}

\* result["choices"][0]["message"]["content"] of a provider that answered
ProviderOutput(p) == "respuesta de " \o p

\* variant of _get_fallback_providers that does not remove the primary
\* provider from the fallback order
_get_fallback_providers_keepprimary(provider_name, keys) ==
    SelectSeq(FALLBACK_ORDER, LAMBDA p : p \in keys)

\* the fallback chain: the other providers that have an API key, in order
_get_fallback_providers(provider_name, keys) ==
    SelectSeq(FALLBACK_ORDER, LAMBDA p : p # provider_name /\ p \in keys)

LLMResult(ret, calls, raised) == [ret |-> ret, calls |-> calls, raised |-> raised]

\* lines 76-90: the loop over the fallback providers
RECURSIVE try_fallbacks(_, _, _)
try_fallbacks(chain, outcome, calls) ==
    IF chain = <<>> THEN LLMResult(LLM_FALLBACK_TEXT, calls, FALSE)
    ELSE IF outcome[Head(chain)] = "ok"
         THEN LLMResult(ProviderOutput(Head(chain)), Append(calls, Head(chain)), FALSE)
         ELSE try_fallbacks(Tail(chain), outcome, Append(calls, Head(chain)))

\* variant of process_message that gives up after the primary provider
process_message_primaryonly(provider_name, fallback_providers, outcome) ==
    IF outcome[provider_name] = "ok"
    THEN LLMResult(ProviderOutput(provider_name), <<provider_name>>, FALSE)
    ELSE LLMResult(LLM_FALLBACK_TEXT, <<provider_name>>, FALSE)

\* calls: the providers whose generate_response was called, in call order
process_message(provider_name, fallback_providers, outcome) ==
    IF outcome[provider_name] = "ok"
    THEN LLMResult(ProviderOutput(provider_name), <<provider_name>>, FALSE)
    ELSE try_fallbacks(fallback_providers, outcome, <<provider_name>>)

----------------------------------------------------------------------------
(* app/observability/metrics.py, track_webhook_received *)

\* the value of the x-event-type header; NoEvent when the header is absent
NoEvent    == "None"
EventTypes == {"order/created", "product/updated", "app/uninstalled", NoEvent}

MetricNames ==
    {"webhooks.chat.received", "webhooks.chat.message",
     "webhooks.tiendanube.received"}
    \cup {"webhooks.tiendanube." \o e : e \in EventTypes}

metrics_increment(m, name) == [m EXCEPT ![name] = @ + 1]

track_webhook_received(m, source, event_type) ==
    metrics_increment(metrics_increment(m, "webhooks." \o source \o ".received"),
                      "webhooks." \o source \o "." \o event_type)

----------------------------------------------------------------------------
(* app/gateway/security.py                                                 *)
(*                                                                         *)
(* A Python str is a sequence of characters, bytes a sequence of numbers;  *)
(* Optional[str] is a record that says whether the value is present.       *)

DigestLen == 3                      \* hex digits of a digest in the model

NoneStr     == [present |-> FALSE, chars |-> <<>>]
Str(chars)  == [present |-> TRUE, chars |-> chars]
Not(x)      == ~x.present \/ x.chars = <<>>      \* Python `not x`

HexDigits == <<"0", "1", "2", "3", "4", "5", "6", "7",
               "8", "9", "a", "b", "c", "d", "e", "f">>

AsciiChars == {HexDigits[i] : i \in 1..16} \cup {"A", "B", "C", "D", "E", "F", "k", "s"}
NonAsciiChar == "é"

\* str.encode('utf-8') of the characters used for secrets
Utf8 == [c \in AsciiChars |->
            CASE c = "k" -> 107 [] c = "s" -> 115 [] c = "a" -> 97
              [] c = "b" -> 98  [] OTHER -> 48]

RECURSIVE WeightedSum(_, _)
WeightedSum(bytes, w) ==
    IF bytes = <<>> THEN 0
    ELSE bytes[Len(bytes)] * (Len(bytes) + w)
         + WeightedSum(SubSeq(bytes, 1, Len(bytes) - 1), w)

RECURSIVE Pow16(_)
Pow16(n) == IF n = 0 THEN 1 ELSE 16 * Pow16(n - 1)

RECURSIVE Hex(_, _)
Hex(n, digits) ==
    IF digits = 0 THEN <<>>
    ELSE Append(Hex(n \div 16, digits - 1), HexDigits[(n % 16) + 1])

\* hmac.new(key, payload, hashlib.sha256).hexdigest(): a keyed digest written
\* in lowercase hex.  SHA-256 itself is replaced by a small keyed checksum of
\* DigestLen hex digits; what the caller relies on is kept: the digest is a
\* function of key and payload and is written in lowercase hex.
hmac_hexdigest(key, payload) ==
    Hex((WeightedSum(key, 3) * 7 + WeightedSum(payload, 1) * 13 + 11)
            % Pow16(DigestLen), DigestLen)

IsAscii(chars) == \A i \in 1..Len(chars) : chars[i] \in AsciiChars

\* hmac.compare_digest on two str: TypeError unless both are ASCII
compare_digest(a, b) ==
    IF IsAscii(a) /\ IsAscii(b)
    THEN [raised |-> FALSE, value |-> a = b]
    ELSE [raised |-> TRUE, value |-> FALSE]

\* variant of verify_webhook_signature without the try/except
verify_webhook_signature_unguarded(signature, payload, sec) ==
    IF Not(signature) \/ Not(sec)
    THEN [ret |-> FALSE, raised |-> FALSE]
    ELSE LET expected_signature ==
                 hmac_hexdigest([i \in 1..Len(sec.chars) |-> Utf8[sec.chars[i]]],
                                payload)
             is_valid == compare_digest(signature.chars, expected_signature)
         IN  [ret |-> is_valid.value, raised |-> is_valid.raised]

\* ret: the value returned; raised: an exception left the function
verify_webhook_signature(signature, payload, sec) ==
    IF Not(signature) \/ Not(sec)
    THEN [ret |-> FALSE, raised |-> FALSE]
    ELSE LET expected_signature ==
                 hmac_hexdigest([i \in 1..Len(sec.chars) |-> Utf8[sec.chars[i]]],
                                payload)
             is_valid == compare_digest(signature.chars, expected_signature)
         IN  IF is_valid.raised
             THEN [ret |-> FALSE, raised |-> FALSE]     \* except Exception
             ELSE [ret |-> is_valid.value, raised |-> FALSE]

----------------------------------------------------------------------------
(* Initial state: after the lifespan start (init_db() cleared the store)   *)

\* op/user_id: the call; session: the Session returned or operated on;
\* ok: boolean result; created: the session was created by this call;
\* after: the session close_session had closed for this user before the call;
\* expired: the session this call found expired and closed
Observed(op, user_id, session, ok, created, after, expired) ==
    [op |-> op, user_id |-> user_id, session |-> session, ok |-> ok,
     created |-> created, after |-> after, expired |-> expired]

\* calls: the collaborators the request has called so far, in call order
IdleRequest ==
    [pc |-> "idle", user_id |-> "", message |-> "", session |-> NoSession,
     calls |-> <<>>]

DoneRequest == [IdleRequest EXCEPT !.pc = "done"]

HttpAnswer(r, body, status, detail, response, calls) ==
    [request |-> r, body |-> body, status |-> status, detail |-> detail,
     response |-> response, calls |-> calls]

NoBody == [kind |-> "none", user_id |-> "", message |-> ""]

\* the JSON body of an answer that is not a success, and the argument of a
\* stub that was not called
NoResponse == [status |-> "", event |-> NoEvent]
NoArgument == [kind |-> "none", bytes |-> <<>>]

\* line 85: the dictionary the handler returns
Processed(event_type) == [status |-> "processed", event |-> event_type]

\* n: requests answered so far; verified: "not_run", "failed" or "passed";
\* calls: the processing stubs the request invoked; response: the JSON body
\* of a 200 answer; argument: the value the stub was called with
HookAnswer(n, status, detail, event, verified, calls) ==
    [n |-> n, status |-> status, detail |-> detail, event |-> event,
     verified |-> verified, calls |-> calls, response |-> NoResponse,
     argument |-> NoArgument]

NoHookAnswer == HookAnswer(0, 0, "", NoEvent, "not_run", <<>>)
NoDeliveries == [process_new_order |-> 0, process_product_update |-> 0]
NoSigCheck   == [signature |-> NoneStr, payload |-> <<>>, secret |-> NoneStr,
                 ret |-> FALSE, raised |-> FALSE]

InitSessions ==
    /\ now = 0
    /\ heap = <<>>
    /\ store = [u \in Users |-> NoSession]
    /\ reqs = [r \in Requests |-> IdleRequest]
    /\ metrics = [n \in MetricNames |-> 0]
    /\ resp = HttpAnswer(0, NoBody, 0, "", "", <<>>)
    /\ last = Observed("none", "", NoSession, FALSE, FALSE, NoSession, NoSession)
    /\ dead = {}
    /\ mustRenew = [u \in Users |-> NoSession]

NoLLMCall ==
    [called |-> FALSE, provider_name |-> "", keys |-> {}, outcome |-> <<>>,
     ret |-> "", calls |-> <<>>, raised |-> FALSE]

NoRuleCheck ==
    [called |-> FALSE, message |-> "", messages |-> <<>>,
     result |-> RuleResult(FALSE, "", NoneResponse, 0)]

NoPayload == [called |-> FALSE, kwargs |-> <<>>, result |-> [ok |-> FALSE, errors |-> {}]]

NoGenerated == [called |-> FALSE, text |-> <<>>, out |-> <<>>, cut |-> <<>>]

----------------------------------------------------------------------------
(* app/handoff/notifier.py, Notifier. A channel implementation checks its  *)
(* settings and then hands the notification to a transport (smtplib or an  *)
(* HTTP POST), which delivers it or raises.                                *)

\* values of settings.NOTIFICATION_PROVIDER
ProviderSettings ==
    {<<"e", "m", "a", "i", "l">>, <<"E", "m", "a", "i", "l">>,
     <<"S", "L", "A", "C", "K">>, <<"w", "e", "b", "h", "o", "o", "k">>,
     <<"s", "m", "s">>, <<"e", "m", "a", "i", "l", " ">>, <<>>}

EMAIL   == <<"e", "m", "a", "i", "l">>
SLACK   == <<"s", "l", "a", "c", "k">>
WEBHOOK == <<"w", "e", "b", "h", "o", "o", "k">>

\* values of an Optional[str] setting: None, "" and a value
OptionalSettings == {NoneStr, Str(<<>>), Str(<<"k">>)}

NotifierSettings ==
    [SMTP_HOST : OptionalSettings, SMTP_USER : OptionalSettings,
     SMTP_PASSWORD : OptionalSettings, SLACK_WEBHOOK_URL : OptionalSettings,
     HANDOFF_WEBHOOK_URL : OptionalSettings]

Transports == {"delivers", "raises"}

\* a channel's result and the deliveries it attempted; raised: an exception
\* left the channel implementation
Sent(provider, deliveries) ==
    [success |-> TRUE, provider |-> provider, error |-> "",
     deliveries |-> deliveries, raised |-> FALSE]
NotSent(error, deliveries) ==
    [success |-> FALSE, provider |-> <<>>, error |-> error,
     deliveries |-> deliveries, raised |-> FALSE]

\* the try/except around a transport: its exception becomes a failure result
Delivered(provider, transport, delivery) ==
    IF transport = "raises"
    THEN NotSent("str(e)", <<delivery>>)
    ELSE Sent(provider, <<delivery>>)

_send_email_notification(cfg, transport) ==
    IF Not(cfg.SMTP_HOST) \/ Not(cfg.SMTP_USER) \/ Not(cfg.SMTP_PASSWORD)
    THEN NotSent("Configuración SMTP incompleta", <<>>)
    ELSE Delivered(EMAIL, transport, "smtp")

_send_slack_notification(cfg, transport) ==
    IF Not(cfg.SLACK_WEBHOOK_URL)
    THEN NotSent("URL de webhook de Slack no configurada", <<>>)
    ELSE Delivered(SLACK, transport, "post to SLACK_WEBHOOK_URL")

_send_webhook_notification(cfg, transport) ==
    IF Not(cfg.HANDOFF_WEBHOOK_URL)
    THEN NotSent("URL de webhook de escalamiento no configurada", <<>>)
    ELSE Delivered(WEBHOOK, transport, "post to HANDOFF_WEBHOOK_URL")

\* variant of __init__ that keeps the setting as it is written
Notifier_aswritten(NOTIFICATION_PROVIDER) == NOTIFICATION_PROVIDER

\* __init__: self.provider
Notifier(NOTIFICATION_PROVIDER) == lower(NOTIFICATION_PROVIDER)

\* the `except Exception` of notify_operator
notify_operator_except(result) ==
    IF result.raised THEN NotSent(result.error, result.deliveries) ELSE result

\* channels: the channel implementations invoked, in order
notify_operator(provider, cfg, transport) ==
    LET channels ==
            IF provider \in {EMAIL, SLACK, WEBHOOK} THEN <<provider>> ELSE <<>>
        result ==
            IF provider = EMAIL THEN _send_email_notification(cfg, transport)
            ELSE IF provider = SLACK THEN _send_slack_notification(cfg, transport)
            ELSE IF provider = WEBHOOK
                 THEN _send_webhook_notification(cfg, transport)
            ELSE NotSent("Proveedor no reconocido", <<>>)
    IN  [result |-> notify_operator_except(result), channels |-> channels]

(* app/handoff/manager.py, HandoffManager.initiate_handoff: its result.     *)
(* The change of the session is initiate_handoff above.                    *)

\* _prepare_handoff_context returns the context or raises, as it does when
\* created_at carries a time zone and datetime.now() does not
ContextOutcomes == {"prepared", "raises"}

\* the try block (lines 85-103): what it returns or raises, and the calls of
\* notify_operator it made
handoff_try(session_id, reason, prepared, notification) ==
    IF prepared = "raises"
    THEN [raised |-> TRUE, error |-> "str(e)", notified |-> <<>>]
    ELSE [raised |-> FALSE, notified |-> <<notification>>,
          ret |-> [success |-> TRUE, session_id |-> session_id,
                   reason |-> reason,
                   notification_sent |-> notification.result.success,
                   estimated_wait_time |-> "5-10 minutos"]]

\* variant of the except clause that lets the exception go
handoff_except_reraise(session_id, outcome) ==
    IF outcome.raised
    THEN [raised |-> TRUE, notified |-> outcome.notified,
          ret |-> [success |-> FALSE, error |-> outcome.error,
                   session_id |-> session_id]]
    ELSE outcome

\* the except clause (lines 105-112)
handoff_except(session_id, outcome) ==
    IF outcome.raised
    THEN [raised |-> FALSE, notified |-> outcome.notified,
          ret |-> [success |-> FALSE, error |-> outcome.error,
                   session_id |-> session_id]]
    ELSE outcome

(* app/handoff/manager.py, HandoffManager.should_handoff. A message is a    *)
(* sequence of characters.                                                 *)

human_request_patterns ==
    <<<<"h", "a", "b", "l", "a", "r", " ", "c", "o", "n", " ", "u", "n", " ", "h", "u", "m", "a", "n", "o">>,
      <<"q", "u", "i", "e", "r", "o", " ", "h", "a", "b", "l", "a", "r", " ", "c", "o", "n", " ", "a", "l", "g", "u", "i", "e", "n">>,
      <<"p", "u", "e", "d", "o", " ", "h", "a", "b", "l", "a", "r", " ", "c", "o", "n", " ", "u", "n", " ", "o", "p", "e", "r", "a", "d", "o", "r">>,
      <<"n", "e", "c", "e", "s", "i", "t", "o", " ", "h", "a", "b", "l", "a", "r", " ", "c", "o", "n", " ", "u", "n", "a", " ", "p", "e", "r", "s", "o", "n", "a">>,
      <<"h", "u", "m", "a", "n", "o", " ", "p", "o", "r", " ", "f", "a", "v", "o", "r">>,
      <<"o", "p", "e", "r", "a", "d", "o", "r">>,
      <<"a", "g", "e", "n", "t", "e">>,
      <<"p", "e", "r", "s", "o", "n", "a">>,
      <<"a", "l", "g", "u", "i", "e", "n", " ", "r", "e", "a", "l">>>>

frustration_patterns ==
    <<<<"n", "o", " ", "f", "u", "n", "c", "i", "o", "n", "a">>,
      <<"n", "o", " ", "e", "n", "t", "i", "e", "n", "d", "o">>,
      <<"n", "o", " ", "m", "e", " ", "a", "y", "u", "d", "a", "s", "t", "e">>,
      <<"i", "n", "ú", "t", "i", "l">>,
      <<"f", "r", "u", "s", "t", "r", "a", "n", "t", "e">>,
      <<"m", "a", "l", "o">>,
      <<"t", "e", "r", "r", "i", "b", "l", "e">>,
      <<"n", "o", " ", "s", "i", "r", "v", "e">>,
      <<"e", "s", "t", "o", "y", " ", "c", "a", "n", "s", "a", "d", "o">>,
      <<"n", "o", " ", "p", "u", "e", "d", "o">>,
      <<"i", "m", "p", "o", "s", "i", "b", "l", "e">>>>

complex_topic_patterns ==
    <<<<"r", "e", "e", "m", "b", "o", "l", "s", "o">>,
      <<"d", "e", "v", "o", "l", "u", "c", "i", "ó", "n">>,
      <<"q", "u", "e", "j", "a">>,
      <<"p", "r", "o", "b", "l", "e", "m", "a", " ", "c", "o", "n", " ", "e", "l", " ", "p", "a", "g", "o">>,
      <<"f", "a", "c", "t", "u", "r", "a", "c", "i", "ó", "n">>,
      <<"c", "a", "n", "c", "e", "l", "a", "r", " ", "p", "e", "d", "i", "d", "o">>,
      <<"u", "r", "g", "e", "n", "t", "e">>,
      <<"e", "m", "e", "r", "g", "e", "n", "c", "i", "a">>,
      <<"g", "e", "r", "e", "n", "t", "e">>,
      <<"s", "u", "p", "e", "r", "v", "i", "s", "o", "r">>>>

\* any(pattern in message_lower for pattern in patterns)
AnyPatternIn(patterns, message) ==
    \E i \in DOMAIN patterns : Contains(lower(message), patterns[i])

_user_requests_human(message) == AnyPatternIn(human_request_patterns, message)

_frustration_detected(message) == AnyPatternIn(frustration_patterns, message)

_complex_topic_detected(message) == AnyPatternIn(complex_topic_patterns, message)

\* session.messages[-10:] if len(session.messages) > 10 else session.messages
RecentMessages(session) ==
    IF Len(session.messages) > 10
    THEN SubSeq(session.messages, Len(session.messages) - 9,
                Len(session.messages))
    ELSE session.messages

UserMessagesIn(messages) ==
    Cardinality({i \in DOMAIN messages : messages[i].role = "user"})

\* variant of _multiple_failed_attempts that asks for more than 5
_multiple_failed_attempts_morethan5(session) ==
    UserMessagesIn(RecentMessages(session)) > 5

_multiple_failed_attempts(session) ==
    UserMessagesIn(RecentMessages(session)) >= 5

_long_conversation(session) == Len(session.messages) >= 20

\* the first check that holds, "none" when should_handoff returns False
handoff_signal(session, last_message) ==
    IF _user_requests_human(last_message) THEN "user_requests_human"
    ELSE IF _multiple_failed_attempts(session) THEN "multiple_failed_attempts"
    ELSE IF _frustration_detected(last_message) THEN "frustration_detected"
    ELSE IF _complex_topic_detected(last_message) THEN "complex_topic_detected"
    ELSE IF _long_conversation(session) THEN "long_conversation"
    ELSE "none"

should_handoff(session, last_message) ==
    handoff_signal(session, last_message) # "none"

\* last messages of the user
LastMessages ==
    {<<"h", "o", "l", "a">>,
     <<"Q", "u", "i", "e", "r", "o", " ", "u", "n", " ", "O", "P", "E", "R", "A", "D", "O", "R">>,
     <<"E", "s", "t", "o", " ", "n", "o", " ", "f", "u", "n", "c", "i", "o", "n", "a">>,
     <<"u", "n", " ", "r", "e", "e", "m", "b", "o", "l", "s", "o">>,
     <<>>,
     <<"g", "r", "a", "c", "i", "a", "s">>}

\* n: the calls observed so far
NoHandoff == [op |-> "none", n |-> 0]

(* app/context/loader.py, CatalogLoader. The platform answers the request *)
(* for page i with the i-th outcome of a server: the products of the page, *)
(* or a failure (a non-2xx status, a timeout); past the last outcome every *)
(* page is empty.                                                          *)

Product(id, featured, created_at) ==
    [id |-> id, featured |-> featured, created_at |-> created_at]

\* the products of page `page`, from what the page says of each
PageProducts(page, content) ==
    [i \in DOMAIN content |->
        Product(10 * page + i, content[i].featured, content[i].created_at)]

Featured(created_at) == [featured |-> TRUE, created_at |-> created_at]
Plain(created_at)    == [featured |-> FALSE, created_at |-> created_at]

\* a 2xx answer with its items, or a failure
Page(items) == [status |-> "ok", items |-> items]
Fails       == [status |-> "fails", items |-> <<>>]

PageOutcomes ==
    {Page(<<Featured(1), Plain(1)>>), Page(<<Plain(2), Plain(2)>>),
     Page(<<>>), Fails}

PageAt(server, page) ==
    IF page \in DOMAIN server THEN server[page] ELSE Page(<<>>)

\* variant of _fetch_products that returns what it has when a page fails
RECURSIVE _fetch_products_partial(_, _, _, _)
_fetch_products_partial(server, page, products, requests) ==
    LET answer == PageAt(server, page)
        asked  == Append(requests, page)
    IN  IF answer.status = "fails"
        THEN [raised |-> FALSE, products |-> products, requests |-> asked]
        ELSE IF answer.items = <<>>
        THEN [raised |-> FALSE, products |-> products, requests |-> asked]
        ELSE _fetch_products_partial(server, page + 1,
                 products \o PageProducts(page, answer.items), asked)

\* the loop of _fetch_products from page `page` on; requests: the pages
\* asked for, in order
RECURSIVE _fetch_products(_, _, _, _)
_fetch_products(server, page, products, requests) ==
    LET answer == PageAt(server, page)
        asked  == Append(requests, page)
    IN  IF answer.status = "fails"
        THEN [raised |-> TRUE, products |-> <<>>, requests |-> asked]
        ELSE IF answer.items = <<>>
        THEN [raised |-> FALSE, products |-> products, requests |-> asked]
        ELSE _fetch_products(server, page + 1,
                 products \o PageProducts(page, answer.items), asked)

\* app.context.store.save_catalog: each product is stored under its
\* identifier, a stored product with that identifier being replaced
RECURSIVE save_catalog(_, _)
save_catalog(storage, products) ==
    IF products = <<>> THEN storage
    ELSE LET p == Head(products)
             at == {i \in DOMAIN storage : storage[i].id = p.id}
             stored == IF at = {} THEN Append(storage, p)
                       ELSE [storage EXCEPT ![CHOOSE i \in at : TRUE] = p]
         IN  save_catalog(stored, Tail(products))

\* app.context.store.get_catalog: the stored products, in stored order
get_catalog(storage) == storage

\* saves: the calls of save_catalog
sync_catalog(api_key, store_id, server, storage) ==
    IF Not(api_key) \/ Not(store_id)
    THEN [success |-> FALSE, error |-> "Credenciales no configuradas",
          products_count |-> 0, requests |-> <<>>, saves |-> <<>>,
          storage |-> storage]
    ELSE LET f == _fetch_products(server, 1, <<>>, <<>>) IN
         IF f.raised
         THEN [success |-> FALSE, error |-> "str(e)", products_count |-> 0,
               requests |-> f.requests, saves |-> <<>>, storage |-> storage]
         ELSE [success |-> TRUE, error |-> "",
               products_count |-> Len(f.products), requests |-> f.requests,
               saves |-> <<f.products>>,
               storage |-> save_catalog(storage, f.products)]

\* list.sort(key=created_at, reverse=True): a stable sort, so products of
\* one date keep their order
InsertByCreatedDesc(sorted, p) ==
    LET k == Cardinality({i \in DOMAIN sorted :
                            sorted[i].created_at >= p.created_at})
    IN  SubSeq(sorted, 1, k) \o <<p>> \o SubSeq(sorted, k + 1, Len(sorted))

RECURSIVE SortedByCreatedDesc(_)
SortedByCreatedDesc(products) ==
    IF products = <<>> THEN <<>>
    ELSE InsertByCreatedDesc(
             SortedByCreatedDesc(SubSeq(products, 1, Len(products) - 1)),
             products[Len(products)])

\* products[:limit], for a limit of 0 or more
FirstOf(products, limit) ==
    SubSeq(products, 1, IF limit < Len(products) THEN limit ELSE Len(products))

get_featured_products(storage, limit) ==
    LET products == get_catalog(storage)
        featured == SelectSeq(products, LAMBDA p : p.featured)
    IN  IF Len(featured) < limit
        THEN FirstOf(FirstOf(SortedByCreatedDesc(products), limit), limit)
        ELSE FirstOf(featured, limit)

NoCatalog ==
    [op |-> "none", storage |-> <<>>, server |-> <<>>,
     api_key |-> NoneStr, store_id |-> NoneStr, requests |-> <<>>,
     saves |-> <<>>, success |-> FALSE, error |-> "", products_count |-> 0,
     limit |-> 0, ret |-> <<>>]

InitCalls ==
    /\ llmcall = NoLLMCall
    /\ rulecheck = NoRuleCheck
    /\ generated = NoGenerated
    /\ chatpayload = NoPayload

InitUnits ==
    /\ InitCalls
    /\ collector = MetricsCollector
    /\ flows = [f \in Flows |-> IdleFlow]
    /\ docs = NoDocs
    /\ handoff = NoHandoff
    /\ catalog = NoCatalog

Init ==
    /\ InitSessions
    /\ InitUnits
    /\ secret = NoneStr
    /\ hook = NoHookAnswer
    /\ delivered = NoDeliveries
    /\ sigcheck = NoSigCheck

----------------------------------------------------------------------------
(* Calls of the session API made directly (tests, operators, other code)   *)

\* the sessions closed by a step from heap h to heap h1
ClosedBetween(h, h1) ==
    {i \in 1..Len(h) : h[i].state # "closed" /\ h1[i].state = "closed"}

RECURSIVE TotalMessages(_)
TotalMessages(h) ==
    IF h = <<>> THEN 0
    ELSE Len(h[Len(h)].messages) + TotalMessages(SubSeq(h, 1, Len(h) - 1))

\* room for one more user/assistant pair
CanAppend(h) == TotalMessages(h) + 2 <= MaxMessages

\* the session a get_or_create_session call finds expired in the store
FoundExpired(h, st, user_id, t) ==
    LET g == get_session(h, st, user_id) IN
    IF g.ret # NoSession /\ ~_is_session_valid(h[g.ret], t) THEN g.ret
    ELSE NoSession

ObservedGetOrCreate(u, r) ==
    Observed("get_or_create_session", u, r.ret, TRUE, r.created,
             mustRenew[u], FoundExpired(heap, store, u, now))

Tick ==
    /\ \E d \in TickSteps : now + d <= MaxNow /\ now' = now + d
    /\ UNCHANGED <<heap, store, reqs, metrics, resp, last, dead, mustRenew, hookVars, unitVars>>

GetSession(u) ==
    LET g == get_session(heap, store, u) IN
    /\ store' = g.store
    /\ last' = Observed("get_session", u, g.ret, g.ret # NoSession, FALSE,
                        NoSession, NoSession)
    /\ UNCHANGED <<now, heap, reqs, metrics, resp, dead, mustRenew, hookVars, unitVars>>

GetOrCreateSession(u) ==
    LET r == get_or_create_session(heap, store, u, now) IN
    /\ Len(r.heap) <= MaxSessions
    /\ heap' = r.heap
    /\ store' = r.store
    /\ last' = ObservedGetOrCreate(u, r)
    /\ dead' = dead \cup ClosedBetween(heap, r.heap)
    /\ mustRenew' = [mustRenew EXCEPT ![u] = NoSession]
    /\ UNCHANGED <<now, reqs, metrics, resp, hookVars, unitVars>>

UpdateSession(s, user_message, bot_response) ==
    LET r == update_session(heap, store, s, user_message, bot_response, now) IN
    /\ s \in 1..Len(heap)
    /\ CanAppend(heap)
    /\ heap' = r.heap
    /\ store' = r.store
    /\ last' = Observed("update_session", heap[s].user_id, s, TRUE, FALSE,
                        NoSession, NoSession)
    /\ UNCHANGED <<now, reqs, metrics, resp, dead, mustRenew, hookVars, unitVars>>

CloseSession(u) ==
    LET r == close_session(heap, store, u) IN
    /\ heap' = r.heap
    /\ store' = r.store
    /\ last' = Observed("close_session", u, r.session, r.ret, FALSE,
                        NoSession, NoSession)
    /\ dead' = dead \cup ClosedBetween(heap, r.heap)
    /\ mustRenew' = IF r.ret THEN [mustRenew EXCEPT ![u] = r.session]
                             ELSE mustRenew
    /\ UNCHANGED <<now, reqs, metrics, resp, hookVars, unitVars>>

\* the hand-off is started by the flow that serves the session, on a
\* session that is active when the hand-off starts
InitiateHandoff(s) ==
    /\ s \in 1..Len(heap)
    /\ heap[s].state = "active"
    /\ heap' = initiate_handoff(heap, s)
    /\ last' = Observed("initiate_handoff", heap[s].user_id, s, TRUE, FALSE,
                        NoSession, NoSession)
    /\ UNCHANGED <<now, store, reqs, metrics, resp, dead, mustRenew, hookVars, unitVars>>

----------------------------------------------------------------------------
(* app/gateway/router.py, chat_webhook.  The handler runs from its entry   *)
(* (the bearer dependency has already accepted the request) to the LLM     *)
(* call, the only await that suspends, and from there to the end.          *)

Missing == "<missing>"              \* payload.get(...) returned None

ChatBodies ==
    {[kind |-> "invalid_json", user_id |-> Missing, message |-> Missing],
     [kind |-> "not_object",   user_id |-> Missing, message |-> Missing]}
    \cup [kind : {"object"},
          user_id : Users \cup {Missing, ""},
          message : ChatMessages \cup {Missing, ""}]

\* JSON objects that carry a field other than user_id and message
ExtraFieldBodies ==
    [kind : {"object_extra"},
     user_id : Users \cup {Missing},
     message : ChatMessages \cup {Missing}]

\* payload.get reads the two keys of any JSON object, whatever else it holds
ObjectKinds == {"object", "object_extra"}

Falsy(v) == v \in {Missing, ""}

\* requests are numbered in the order of their arrival
Arrives(r) ==
    reqs[r].pc = "idle" /\ (IF r = 1 THEN TRUE ELSE reqs[r - 1].pc # "idle")

\* variant of chat_payload_error that answers 422 for missing data
chat_payload_error_422(body) ==
    IF body.kind \notin ObjectKinds THEN 500
    ELSE IF Falsy(body.user_id) \/ Falsy(body.message) THEN 422
    ELSE 0

\* lines 106-115: the status the payload is refused with, 0 when accepted.
\* request.json() raises on a body that is not JSON and payload.get on a
\* JSON value that is not an object; both end in `except Exception`.
chat_payload_error(body) ==
    IF body.kind \notin ObjectKinds THEN 500
    ELSE IF Falsy(body.user_id) \/ Falsy(body.message) THEN 400
    ELSE 0

\* lines 160-161: logger.exception runs in the `except Exception` branch,
\* the one that answers 500
LoggedException(status) == status = 500

ErrorDetail(status) ==
    IF status = 400 THEN "Faltan datos requeridos"
    ELSE "Error interno del servidor"

\* variant of CallsToLLM in which the LLM adapter is called before the rules
CallsToLLM_rulesafter ==
    <<"track_webhook_received", "get_or_create_session", "process_message",
      "check_message">>

CallsToRules == <<"track_webhook_received", "get_or_create_session", "check_message">>
CallsToLLM   == CallsToRules \o <<"process_message">>

ChatWebhookBegin(r, body) ==
    /\ Arrives(r)
    /\ IF chat_payload_error(body) # 0
       THEN /\ reqs' = [reqs EXCEPT ![r] = DoneRequest]
            /\ resp' = HttpAnswer(r, body, chat_payload_error(body),
                                  ErrorDetail(chat_payload_error(body)), "", <<>>)
            /\ UNCHANGED <<now, heap, store, metrics, last, dead, mustRenew, hookVars, unitVars>>
       ELSE LET g    == get_or_create_session(heap, store, body.user_id, now)
                rule == check_message(body.message, g.heap[g.ret], now)
                u    == update_session(g.heap, g.store, g.ret, body.message,
                                       rule.response, now)
            IN  /\ Len(g.heap) <= MaxSessions
                /\ metrics' = track_webhook_received(metrics, "chat", "message")
                /\ dead' = dead \cup ClosedBetween(heap, g.heap)
                /\ mustRenew' = [mustRenew EXCEPT ![body.user_id] = NoSession]
                /\ last' = ObservedGetOrCreate(body.user_id, g)
                /\ IF rule.is_violation
                   THEN /\ CanAppend(heap)
                        /\ heap' = u.heap
                        /\ store' = u.store
                        /\ reqs' = [reqs EXCEPT ![r] = DoneRequest]
                        /\ resp' = HttpAnswer(r, body, 200, "", rule.response,
                                      CallsToRules \o <<"update_session">>)
                   ELSE /\ heap' = g.heap
                        /\ store' = g.store
                        /\ reqs' = [reqs EXCEPT ![r] =
                                      [pc |-> "llm", user_id |-> body.user_id,
                                       message |-> body.message,
                                       session |-> g.ret,
                                       calls |-> CallsToLLM]]
                        /\ resp' = resp
                /\ UNCHANGED <<now, hookVars, unitVars>>

\* variant of ChatWebhookFinish that answers 503 and records nothing when
\* the adapter hands back its fixed apology
ChatWebhookFinish_errorstatus(r, llm_output) ==
    LET response == generate(llm_output)
        failed   == llm_output = LLM_FALLBACK_TEXT
        u == update_session(heap, store, reqs[r].session, reqs[r].message,
                            response, now)
    IN  /\ reqs[r].pc = "llm"
        /\ CanAppend(heap)
        /\ heap' = IF failed THEN heap ELSE u.heap
        /\ store' = IF failed THEN store ELSE u.store
        /\ reqs' = [reqs EXCEPT ![r] = DoneRequest]
        /\ resp' = HttpAnswer(r, [kind |-> "object", user_id |-> reqs[r].user_id,
                                  message |-> reqs[r].message],
                              IF failed THEN 503 ELSE 200, "",
                              IF failed THEN "" ELSE response,
                              reqs[r].calls \o <<"generate", "update_session">>)
        /\ last' = Observed("update_session", reqs[r].user_id, reqs[r].session,
                            TRUE, FALSE, NoSession, NoSession)
        /\ UNCHANGED <<now, metrics, dead, mustRenew, hookVars, unitVars>>

ChatWebhookFinish(r, llm_output) ==
    LET response == generate(llm_output)
        u == update_session(heap, store, reqs[r].session, reqs[r].message,
                            response, now)
    IN  /\ reqs[r].pc = "llm"
        /\ CanAppend(heap)
        /\ heap' = u.heap
        /\ store' = u.store
        /\ reqs' = [reqs EXCEPT ![r] = DoneRequest]
        /\ resp' = HttpAnswer(r, [kind |-> "object", user_id |-> reqs[r].user_id,
                                  message |-> reqs[r].message],
                              200, "", response,
                              reqs[r].calls \o <<"generate", "update_session">>)
        /\ last' = Observed("update_session", reqs[r].user_id, reqs[r].session,
                            TRUE, FALSE, NoSession, NoSession)
        /\ UNCHANGED <<now, metrics, dead, mustRenew, hookVars, unitVars>>

----------------------------------------------------------------------------

(* The session API driven directly.  A chat request is, for the store, a  *)
(* get_or_create_session call followed after the LLM call by an            *)
(* update_session call on the reference it was given; UpdateSession below  *)
(* is that second call made by any holder of a reference.                  *)

Next ==
    \/ Tick
    \/ \E u \in Users : GetSession(u)
    \/ \E u \in Users : GetOrCreateSession(u)
    \/ \E s \in 1..MaxSessions, m \in ChatMessages, b \in BotReplies :
          UpdateSession(s, m, b)
    \/ \E u \in Users : CloseSession(u)
    \/ \E s \in 1..MaxSessions : InitiateHandoff(s)

Spec == Init /\ [][Next]_vars

(* The chat endpoint under concurrent requests *)

NextChat ==
    \/ Tick
    \/ \E r \in Requests, body \in ChatBodies : ChatWebhookBegin(r, body)
    \/ \E r \in Requests, o \in LLMOutputs : ChatWebhookFinish(r, o)
    \/ \E u \in Users : CloseSession(u)

SpecChat == Init /\ [][NextChat]_vars

(* The chat endpoint on every kind of payload *)

NextChatPayload ==
    \/ \E r \in Requests, body \in ChatBodies \cup ExtraFieldBodies :
          ChatWebhookBegin(r, body)
    \/ \E r \in Requests, o \in LLMOutputs : ChatWebhookFinish(r, o)

SpecChatPayload == Init /\ [][NextChatPayload]_vars

----------------------------------------------------------------------------
(* app/gateway/router.py, tiendanube_webhook, and direct calls of           *)
(* verify_webhook_signature                                                 *)

MaxDeliveries == 2      \* Tienda Nube requests ever received

\* request bodies: the raw bytes and what request.json() makes of them
HookBodies ==
    {[kind |-> "invalid_json", bytes |-> <<1>>],
     [kind |-> "not_object",   bytes |-> <<2, 3>>],
     [kind |-> "object",       bytes |-> <<4, 5, 6>>]}

Secrets == {NoneStr, Str(<<>>), Str(<<"k">>), Str(<<"s", "k">>)}

Encode(sec) == [i \in 1..Len(sec.chars) |-> Utf8[sec.chars[i]]]

HexValue(c) == CHOOSE v \in 0..15 : HexDigits[v + 1] = c

Upper(chars) ==
    [i \in 1..Len(chars) |->
        CASE chars[i] = "a" -> "A" [] chars[i] = "b" -> "B"
          [] chars[i] = "c" -> "C" [] chars[i] = "d" -> "D"
          [] chars[i] = "e" -> "E" [] chars[i] = "f" -> "F"
          [] OTHER -> chars[i]]

\* the digest with one character replaced by the next hex digit
Mutations(d) ==
    {[d EXCEPT ![i] = HexDigits[((HexValue(d[i]) + 1) % 16) + 1]] : i \in 1..Len(d)}

\* x-signature header values tried against the digest d
SignatureInputs(d) ==
    {NoneStr, Str(<<>>)}
    \cup {Str(c) : c \in {d, Upper(d), SubSeq(d, 1, Len(d) - 1), Append(d, "0"),
                         [d EXCEPT ![1] = NonAsciiChar]} \cup Mutations(d)}

AllSignatures ==
    UNION {SignatureInputs(hmac_hexdigest(Encode(sec), b.bytes)) :
              sec \in Secrets, b \in HookBodies}

VerifyWebhookSignature(signature, payload, sec) ==
    LET v == verify_webhook_signature(signature, payload, sec) IN
    /\ sigcheck' = [signature |-> signature, payload |-> payload, secret |-> sec,
                    ret |-> v.ret, raised |-> v.raised]
    /\ UNCHANGED <<sessionVars, metrics, secret, hook, delivered, unitVars>>

\* the stubs log payload.get('id'): AttributeError when the JSON value is not an object
StubRaises(body) == body.kind # "object"

\* variant of Dispatch that hands each event to the other stub
Dispatch_swapped(event_type) ==
    IF event_type = "order/created" THEN <<"process_product_update">>
    ELSE IF event_type = "product/updated" THEN <<"process_new_order">>
    ELSE <<>>

\* lines 78-83: the stubs an event type is dispatched to
Dispatch(event_type) ==
    IF event_type = "order/created" THEN <<"process_new_order">>
    ELSE IF event_type = "product/updated" THEN <<"process_product_update">>
    ELSE <<>>

\* variant of tiendanube_webhook that dispatches before it checks the signature
tiendanube_webhook_dispatchfirst(body, event_type, signature, sec) ==
    IF body.kind = "invalid_json"
    THEN [status |-> 500, detail |-> "Error interno del servidor",
          verified |-> "not_run", calls |-> <<>>, tracked |-> FALSE,
          response |-> NoResponse, argument |-> NoArgument]
    ELSE IF Dispatch(event_type) # <<>> /\ StubRaises(body)
    THEN [status |-> 500, detail |-> "Error interno del servidor",
          verified |-> "not_run", calls |-> Dispatch(event_type), tracked |-> TRUE,
          response |-> NoResponse, argument |-> body]
    ELSE IF ~verify_webhook_signature(signature, body.bytes, sec).ret
    THEN [status |-> 401, detail |-> "Firma inválida",
          verified |-> "failed", calls |-> Dispatch(event_type), tracked |-> TRUE,
          response |-> NoResponse,
          argument |-> IF Dispatch(event_type) = <<>> THEN NoArgument ELSE body]
    ELSE [status |-> 200, detail |-> "", verified |-> "passed",
          calls |-> Dispatch(event_type), tracked |-> TRUE,
          response |-> Processed(event_type),
          argument |-> IF Dispatch(event_type) = <<>> THEN NoArgument ELSE body]

\* the handler from its entry (the bearer dependency has accepted the request)
\* status/detail: the answer; verified: outcome of the signature check;
\* calls: stubs invoked; tracked: track_webhook_received was called
tiendanube_webhook(body, event_type, signature, sec) ==
    IF body.kind = "invalid_json"
    THEN [status |-> 500, detail |-> "Error interno del servidor",
          verified |-> "not_run", calls |-> <<>>, tracked |-> FALSE,
          response |-> NoResponse, argument |-> NoArgument]
    ELSE IF ~verify_webhook_signature(signature, body.bytes, sec).ret
    THEN [status |-> 401, detail |-> "Firma inválida",
          verified |-> "failed", calls |-> <<>>, tracked |-> TRUE,
          response |-> NoResponse, argument |-> NoArgument]
    ELSE LET calls == Dispatch(event_type)
             argument == IF calls = <<>> THEN NoArgument ELSE body
         IN  IF calls # <<>> /\ StubRaises(body)
             THEN [status |-> 500, detail |-> "Error interno del servidor",
                   verified |-> "passed", calls |-> calls, tracked |-> TRUE,
                   response |-> NoResponse, argument |-> argument]
             ELSE [status |-> 200, detail |-> "", verified |-> "passed",
                   calls |-> calls, tracked |-> TRUE,
                   response |-> Processed(event_type), argument |-> argument]

TiendanubeWebhook(body, event_type, signature) ==
    LET a == tiendanube_webhook(body, event_type, signature, secret) IN
    /\ hook.n < MaxDeliveries
    /\ hook' = [HookAnswer(hook.n + 1, a.status, a.detail, event_type,
                           a.verified, a.calls)
                    EXCEPT !.response = a.response, !.argument = a.argument]
    /\ metrics' = IF a.tracked
                  THEN track_webhook_received(metrics, "tiendanube", event_type)
                  ELSE metrics
    /\ delivered' = IF a.calls = <<>> THEN delivered
                    ELSE [delivered EXCEPT ![a.calls[1]] = @ + 1]
    /\ UNCHANGED <<sessionVars, secret, sigcheck, unitVars>>

InitWebhook ==
    /\ InitSessions
    /\ InitUnits
    /\ secret \in Secrets
    /\ hook = NoHookAnswer
    /\ delivered = NoDeliveries
    /\ sigcheck = NoSigCheck

NextWebhook ==
    \E b \in HookBodies, e \in EventTypes, signature \in AllSignatures :
        TiendanubeWebhook(b, e, signature)

SpecWebhook == InitWebhook /\ [][NextWebhook]_vars

(* verify_webhook_signature applied to every combination of its inputs *)

NextSignature ==
    \E signature \in AllSignatures, b \in HookBodies, sec \in Secrets :
        VerifyWebhookSignature(signature, b.bytes, sec)

SpecSignature == Init /\ [][NextSignature]_vars

(* LLMAdapter.process_message under every provider configuration *)

ProcessMessage(provider_name, keys, outcome) ==
    LET r == process_message(provider_name,
                             _get_fallback_providers(provider_name, keys), outcome)
    IN  /\ llmcall' = [called |-> TRUE, provider_name |-> provider_name,
                       keys |-> keys, outcome |-> outcome,
                       ret |-> r.ret, calls |-> r.calls, raised |-> r.raised]
        /\ UNCHANGED <<sessionVars, metrics, hookVars, rulecheck, generated, chatpayload,
                       collector, flows, docs, handoff, catalog>>

NextLLM ==
    \E p \in ProviderNames, keys \in SUBSET ProviderNames,
       outcome \in [ProviderNames -> ProviderOutcomes] :
        ProcessMessage(p, keys, outcome)

SpecLLM == Init /\ [][NextLLM]_vars

(* RulesEngine.check_message on a session with a given history, one call  *)
(* in each behaviour                                                      *)

MaxHistory == 3         \* messages in the history of the session checked

RuleNow     == 60                       \* datetime.now() of the check
RecentStamp == RuleNow - 59             \* less than 60 s before the check
OldStamp    == RuleNow - 60             \* exactly 60 s before the check

HistoryEntries ==
    {Message("user", "hola", RecentStamp), Message("user", " Hola ", RecentStamp),
     Message("user", "chau", RecentStamp), Message("user", "chau", OldStamp),
     Message("assistant", "Listo.", RecentStamp)}

Histories == UNION {[1..n -> HistoryEntries] : n \in 0..MaxHistory}

CheckMessage(message, msgs) ==
    LET s == [Session(1, "u1", OldStamp) EXCEPT !.messages = msgs] IN
    /\ ~rulecheck.called
    /\ rulecheck' = [called |-> TRUE, message |-> message, messages |-> msgs,
                     result |-> check_message(message, s, RuleNow)]
    /\ UNCHANGED <<sessionVars, metrics, hookVars, llmcall, generated, chatpayload,
                   collector, flows, docs, handoff, catalog>>

NextRules ==
    \E message \in RuleMessages \cup ChatMessages, msgs \in Histories :
        CheckMessage(message, msgs)

SpecRules == Init /\ [][NextRules]_vars

(* ResponseGenerator.generate on texts around the length limit *)

MaxExtra == 2           \* characters a text has beyond max_response_length

\* n times "x", with character c at position pos and a full stop at
\* position stop (0: nowhere)
TextWith(n, pos, c, stop) ==
    [i \in 1..n |-> IF i = pos THEN c ELSE IF i = stop THEN "." ELSE "x"]

Threshold == (MAX_RESPONSE_LENGTH * 8) \div 10

GeneratorTexts ==
    {TextWith(n, pos, c, stop) :
        n \in (MAX_RESPONSE_LENGTH - 1)..(MAX_RESPONSE_LENGTH + MaxExtra),
        pos \in {0, Threshold, Threshold + 1, Threshold + 2,
                 MAX_RESPONSE_LENGTH, MAX_RESPONSE_LENGTH + 1},
        c \in {".", "\n", " ", "!"},
        stop \in {0, 1, MAX_RESPONSE_LENGTH - 1}}

Generate(text) ==
    /\ ~generated.called
    /\ generated' = [called |-> TRUE, text |-> text, out |-> generate_text(text),
                      cut |-> IF Len(text) > MAX_RESPONSE_LENGTH
                              THEN _truncate_response(text)
                              ELSE <<>>]
    /\ UNCHANGED <<sessionVars, metrics, hookVars, llmcall, rulecheck, chatpayload,
                   collector, flows, docs, handoff, catalog>>

NextGenerator == \E text \in GeneratorTexts : Generate(text)

SpecGenerator == Init /\ [][NextGenerator]_vars

(* WebhookChatPayload constructed from keyword arguments *)

MaxExtraFields == 1     \* names a caller may pass beyond the declared fields

UndeclaredNames == <<"extra", "session_id", "id">>

KeywordNames ==
    PayloadFields \cup {UndeclaredNames[i] : i \in 1..MaxExtraFields}

KeywordValues ==
    {StrValue(<<"u", "1">>), StrValue(<<" ", "u", "1", " ">>),
     StrValue(<<"\t", "h", "o", " ", "l", "a", "\n">>), StrValue(<<" ">>),
     IntValue(<<"7">>)}

KeywordArguments ==
    UNION {[names -> KeywordValues] : names \in SUBSET KeywordNames}

ConstructPayload(kwargs) ==
    /\ ~chatpayload.called
    /\ chatpayload' = [called |-> TRUE, kwargs |-> kwargs,
                   result |-> WebhookChatPayload(kwargs)]
    /\ UNCHANGED <<sessionVars, metrics, hookVars, llmcall, rulecheck, generated,
                   collector, flows, docs, handoff, catalog>>

NextSchema == \E kwargs \in KeywordArguments : ConstructPayload(kwargs)

SpecSchema == Init /\ [][NextSchema]_vars

(* The collector called by interleaved flows. Every method body runs       *)
(* inside "with self._lock", a threading.Lock: acquiring blocks while any  *)
(* flow holds the lock, the holder included.                               *)

MaxCalls == 2           \* calls one flow makes

CollectorMetricNames == {"requests"}
SeriesNames == {"latency"}
Durations == {1, 2}

CollectorCalls ==
    {<<"increment", n, 1>> : n \in CollectorMetricNames}
    \cup {<<"set", n, 5>> : n \in CollectorMetricNames}
    \cup {<<"record_time", n, d>> : n \in SeriesNames, d \in Durations}
    \cup {<<"get_timer_stats", n, 0>> : n \in SeriesNames}
    \cup {<<"get_all_metrics", "", 0>>}

\* a flow calls a method of the collector and reaches its "with self._lock"
Call(f, call) ==
    /\ flows[f].pc \in {"idle", "done"}
    /\ flows[f].calls < MaxCalls
    /\ flows' = [flows EXCEPT ![f] =
                    [@ EXCEPT !.pc = "acquire", !.op = call[1], !.name = call[2],
                              !.value = call[3], !.calls = @ + 1,
                              !.stats = ZeroStats, !.dump = NoDump, !.todo = {}]]
    /\ UNCHANGED <<sessionVars, metrics, hookVars, llmcall, rulecheck, generated,
                   chatpayload, collector, docs, handoff, catalog>>

\* variant of Acquire that enters the with block without waiting
Acquire_nowait(f) ==
    /\ flows[f].pc \in {"acquire", "inner_acquire"}
    /\ collector' = [collector EXCEPT !._lock = f]
    /\ flows' = [flows EXCEPT ![f].pc =
                    IF @ = "acquire" THEN "locked" ELSE "inner_locked"]
    /\ UNCHANGED <<sessionVars, metrics, hookVars, llmcall, rulecheck, generated,
                   chatpayload, docs, handoff, catalog>>

\* "with self._lock" is entered: by the method called, or by the
\* get_timer_stats that get_all_metrics calls (line 158)
Acquire(f) ==
    /\ flows[f].pc \in {"acquire", "inner_acquire"}
    /\ collector._lock = "free"
    /\ collector' = [collector EXCEPT !._lock = f]
    /\ flows' = [flows EXCEPT ![f].pc =
                    IF @ = "acquire" THEN "locked" ELSE "inner_locked"]
    /\ UNCHANGED <<sessionVars, metrics, hookVars, llmcall, rulecheck, generated,
                   chatpayload, docs, handoff, catalog>>

Released(c) == [c EXCEPT !._lock = "free"]

\* the body of the method under the lock, up to the end of its with block
\* or, in get_all_metrics, up to the call of get_timer_stats
Body(f) ==
    LET fl == flows[f]
        c  == collector
    IN  /\ fl.pc \in {"locked", "inner_locked"}
        /\ IF fl.pc = "inner_locked"
           THEN LET name == CHOOSE n \in fl.todo : TRUE
                    dump == [fl.dump EXCEPT !.stats =
                                Put(@, name, get_timer_stats(c, name))]
                IN  /\ collector' = Released(c)
                    /\ flows' = [flows EXCEPT ![f] =
                          [@ EXCEPT !.dump = dump, !.todo = @ \ {name},
                                    !.pc = IF fl.todo = {name} THEN "done"
                                           ELSE "inner_acquire"]]
           ELSE CASE fl.op = "increment" ->
                       /\ collector' = Released(increment(c, fl.name, fl.value))
                       /\ flows' = [flows EXCEPT ![f].pc = "done"]
                  [] fl.op = "set" ->
                       /\ collector' = Released(set(c, fl.name, fl.value))
                       /\ flows' = [flows EXCEPT ![f].pc = "done"]
                  [] fl.op = "record_time" ->
                       /\ collector' = Released(record_time(c, fl.name, fl.value))
                       /\ flows' = [flows EXCEPT ![f].pc = "done"]
                  [] fl.op = "get_timer_stats" ->
                       /\ collector' = Released(c)
                       /\ flows' = [flows EXCEPT ![f] =
                             [@ EXCEPT !.pc = "done",
                                       !.stats = get_timer_stats(c, fl.name)]]
                  [] fl.op = "get_all_metrics" ->
                       IF DOMAIN c._timers = {}
                       THEN /\ collector' = Released(c)
                            /\ flows' = [flows EXCEPT ![f] =
                                  [@ EXCEPT !.pc = "done",
                                            !.dump.metrics = SimpleMetrics(c)]]
                       ELSE /\ collector' = c
                            /\ flows' = [flows EXCEPT ![f] =
                                  [@ EXCEPT !.pc = "inner_acquire",
                                            !.dump.metrics = SimpleMetrics(c),
                                            !.todo = DOMAIN c._timers]]
        /\ UNCHANGED <<sessionVars, metrics, hookVars, llmcall, rulecheck,
                       generated, chatpayload, docs, handoff, catalog>>

NextMetrics ==
    \E f \in Flows :
        \/ \E call \in CollectorCalls : Call(f, call)
        \/ Acquire(f)
        \/ Body(f)

SpecMetrics == Init /\ [][NextMetrics]_vars

(* increment and set called by interleaved flows. "x[name] += v" is a      *)
(* read of x[name], an addition and a store; another flow may run between  *)
(* any two of them unless the lock keeps it out. tmp is the value read,    *)
(* log the increment and set calls the flow has made.                      *)

CounterValues == {1, 2}
SetValues     == {5}

CounterCalls ==
    {<<"increment", n, v>> : n \in CollectorMetricNames, v \in CounterValues}
    \cup {<<"set", n, v>> : n \in CollectorMetricNames, v \in SetValues}

\* a flow calls increment or set and reaches its "with self._lock"
CallCounter(f, call) ==
    /\ flows[f].pc \in {"idle", "done"}
    /\ flows[f].calls < MaxCalls
    /\ flows' = [flows EXCEPT ![f] =
                    [@ EXCEPT !.pc = "acquire", !.op = call[1], !.name = call[2],
                              !.value = call[3], !.calls = @ + 1, !.tmp = 0,
                              !.log = Append(@, <<call[1], call[3]>>)]]
    /\ UNCHANGED <<sessionVars, metrics, hookVars, llmcall, rulecheck, generated,
                   chatpayload, collector, docs, handoff, catalog>>

\* one step of increment's with block (lines 35-36); the last one leaves it
IncrementStep(f) ==
    LET fl == flows[f]
        c  == collector
    IN  /\ fl.op = "increment"
        /\ CASE fl.pc = "locked" ->
                   /\ flows' = [flows EXCEPT ![f] =
                         [@ EXCEPT !.pc = "value_read",
                                   !.tmp = Get(c._metrics, fl.name, 0)]]
                   /\ collector' = c
              [] fl.pc = "value_read" ->
                   /\ flows' = [flows EXCEPT ![f].pc = "value_stored"]
                   /\ collector' = [c EXCEPT !._metrics =
                                       Put(@, fl.name, fl.tmp + fl.value)]
              [] fl.pc = "value_stored" ->
                   /\ flows' = [flows EXCEPT ![f] =
                         [@ EXCEPT !.pc = "count_read",
                                   !.tmp = Get(c._counters, fl.name, 0)]]
                   /\ collector' = c
              [] fl.pc = "count_read" ->
                   /\ flows' = [flows EXCEPT ![f].pc = "done"]
                   /\ collector' = Released([c EXCEPT !._counters =
                                                Put(@, fl.name, fl.tmp + 1)])
              [] OTHER -> FALSE
        /\ UNCHANGED <<sessionVars, metrics, hookVars, llmcall, rulecheck,
                       generated, chatpayload, docs, handoff, catalog>>

\* set's with block (line 46): one store
SetStep(f) ==
    /\ flows[f].op = "set"
    /\ flows[f].pc = "locked"
    /\ collector' = Released(set(collector, flows[f].name, flows[f].value))
    /\ flows' = [flows EXCEPT ![f].pc = "done"]
    /\ UNCHANGED <<sessionVars, metrics, hookVars, llmcall, rulecheck,
                   generated, chatpayload, docs, handoff, catalog>>

NextCounters ==
    \E f \in Flows :
        \/ \E call \in CounterCalls : CallCounter(f, call)
        \/ Acquire(f)
        \/ IncrementStep(f)
        \/ SetStep(f)

SpecCounters == Init /\ [][NextCounters]_vars

(* notify_operator called once, under any settings *)

NotifyOperator(setting, cfg, transport) ==
    LET provider == Notifier(setting)
        r        == notify_operator(provider, cfg, transport)
    IN  /\ handoff.op = "none"
        /\ handoff' = [op |-> "notify_operator", n |-> 1, setting |-> setting,
                       provider |-> provider, cfg |-> cfg,
                       transport |-> transport, result |-> r.result,
                       channels |-> r.channels]
        /\ UNCHANGED <<sessionVars, metrics, hookVars, llmcall, rulecheck,
                       generated, chatpayload, collector, flows, docs, catalog>>

NextNotifier ==
    \E setting \in ProviderSettings, cfg \in NotifierSettings,
       transport \in Transports : NotifyOperator(setting, cfg, transport)

SpecNotifier == Init /\ [][NextNotifier]_vars

(* initiate_handoff called on the sessions of the session manager *)

MaxHandoffs == 2        \* calls of initiate_handoff

HandoffReasons == {"user_requested", "long_conversation"}

\* the notifier's settings: everything configured, or nothing
Configured(value) ==
    [SMTP_HOST |-> value, SMTP_USER |-> value, SMTP_PASSWORD |-> value,
     SLACK_WEBHOOK_URL |-> value, HANDOFF_WEBHOOK_URL |-> value]

HandoffNotifiers ==
    {EMAIL, <<"S", "L", "A", "C", "K">>, <<"s", "m", "s">>}
    \X {Configured(NoneStr), Configured(Str(<<"k">>))}

InitiateHandoffCall(s, reason, prepared, notifier, transport) ==
    LET id           == heap[s].session_id
        notification == notify_operator(Notifier(notifier[1]), notifier[2],
                                        transport)
        r            == handoff_except(id, handoff_try(id, reason, prepared,
                                                       notification))
    IN  /\ s \in 1..Len(heap)
        /\ handoff.n < MaxHandoffs
        /\ heap' = initiate_handoff(heap, s)
        /\ handoff' = [op |-> "initiate_handoff", n |-> handoff.n + 1,
                       session |-> s, reason |-> reason,
                       prepared |-> prepared, notification |-> notification,
                       notified |-> r.notified, ret |-> r.ret,
                       raised |-> r.raised]
        /\ last' = Observed("initiate_handoff", heap[s].user_id, s, TRUE, FALSE,
                            NoSession, NoSession)
        /\ UNCHANGED <<now, store, reqs, metrics, resp, dead, mustRenew,
                       hookVars, llmcall, rulecheck, generated, chatpayload,
                       collector, flows, docs, catalog>>

NextHandoff ==
    \/ \E u \in Users : GetOrCreateSession(u)
    \/ \E u \in Users : CloseSession(u)
    \/ \E s \in 1..MaxSessions, reason \in HandoffReasons,
          prepared \in ContextOutcomes, notifier \in HandoffNotifiers,
          transport \in Transports :
            InitiateHandoffCall(s, reason, prepared, notifier, transport)

SpecHandoff == Init /\ [][NextHandoff]_vars

(* should_handoff called on a session whose history update_session builds *)

MaxExchanges == 11      \* calls of update_session on the session

\* update_session on the stored session, with no bound on the history but
\* MaxExchanges
Exchange(s, user_message, bot_response) ==
    LET r == update_session(heap, store, s, user_message, bot_response, now) IN
    /\ s \in 1..Len(heap)
    /\ Len(heap[s].messages) < 2 * MaxExchanges
    /\ heap' = r.heap
    /\ store' = r.store
    /\ last' = Observed("update_session", heap[s].user_id, s, TRUE, FALSE,
                        NoSession, NoSession)
    /\ UNCHANGED <<now, reqs, metrics, resp, dead, mustRenew, hookVars, unitVars>>

FirstSession(u) ==
    /\ heap = <<>>
    /\ GetOrCreateSession(u)

ShouldHandoff(s, last_message) ==
    /\ s \in 1..Len(heap)
    /\ handoff' = [op |-> "should_handoff", n |-> 1, session |-> s,
                   messages |-> Len(heap[s].messages),
                   last_message |-> last_message,
                   signal |-> handoff_signal(heap[s], last_message),
                   ret |-> should_handoff(heap[s], last_message)]
    /\ UNCHANGED <<sessionVars, metrics, hookVars, llmcall, rulecheck,
                   generated, chatpayload, collector, flows, docs, catalog>>

NextShould ==
    \/ \E u \in Users : FirstSession(u)
    \/ \E s \in 1..MaxSessions : Exchange(s, "hola", "Listo.")
    \/ \E s \in 1..MaxSessions, m \in LastMessages : ShouldHandoff(s, m)

SpecShould == Init /\ [][NextShould]_vars

(* the catalog loader: synchronizations, and featured products asked for *)

MaxPages == 2           \* outcomes a server lists
MaxLimit == 3           \* the limit of get_featured_products

Servers ==
    UNION {[1..k -> PageOutcomes] : k \in 1..MaxPages}

Credentials == {NoneStr, Str(<<"k">>)}

SyncCatalog(api_key, store_id, server) ==
    LET r == sync_catalog(api_key, store_id, server, catalog.storage) IN
    /\ catalog' = [op |-> "sync_catalog",
                   storage |-> r.storage,
                   server |-> IF r.requests = <<>> THEN <<>> ELSE server,
                   api_key |-> api_key, store_id |-> store_id,
                   requests |-> r.requests, saves |-> r.saves,
                   success |-> r.success, error |-> r.error,
                   products_count |-> r.products_count,
                   limit |-> 0, ret |-> <<>>]
    /\ UNCHANGED <<sessionVars, metrics, hookVars, llmcall, rulecheck,
                   generated, chatpayload, collector, flows, docs, handoff>>

GetFeaturedProducts(limit) ==
    /\ catalog.op # "get_featured_products"
    /\ catalog' = [catalog EXCEPT
                      !.op = "get_featured_products", !.limit = limit,
                      !.ret = get_featured_products(catalog.storage, limit)]
    /\ UNCHANGED <<sessionVars, metrics, hookVars, llmcall, rulecheck,
                   generated, chatpayload, collector, flows, docs, handoff>>

NextLoader ==
    \/ \E api_key \in Credentials, store_id \in Credentials,
          server \in Servers : SyncCatalog(api_key, store_id, server)
    \/ \E limit \in 1..MaxLimit : GetFeaturedProducts(limit)

SpecLoader == Init /\ [][NextLoader]_vars

(* get_timer_stats on recorded series, called by one flow *)

MaxSeries == 20         \* samples of the short series

\* the i-th of n samples of a series recorded in the given order
Sample(order, n, i) ==
    CASE order = "ascending"  -> i
      [] order = "descending" -> n + 1 - i
      [] order = "constant"   -> 7
      [] order = "mixed"      -> ((i * 7) % 11) + 1

RecordedSeries ==
    {[i \in 1..n |-> Sample(order, n, i)] :
        n \in (1..MaxSeries) \cup {100, MAX_TIMER_SAMPLES},
        order \in {"ascending", "descending", "constant", "mixed"}}

InitTimerStats ==
    /\ InitSessions
    /\ InitCalls
    /\ secret = NoneStr
    /\ hook = NoHookAnswer
    /\ delivered = NoDeliveries
    /\ sigcheck = NoSigCheck
    /\ \E series \in RecordedSeries \cup {<<>>} :
          collector = [MetricsCollector EXCEPT
                          !._timers = IF series = <<>> THEN <<>>
                                      ELSE "latency" :> series]
    /\ flows = [f \in Flows |-> IdleFlow]
    /\ docs = NoDocs
    /\ handoff = NoHandoff
    /\ catalog = NoCatalog

\* one flow's call from its entry to its return, the lock being free
CallAlone(f, call) ==
    /\ flows[f].calls < MaxCalls
    /\ collector._lock = "free"
    /\ collector' = IF call[1] = "record_time"
                    THEN record_time(collector, call[2], call[3])
                    ELSE collector
    /\ flows' = [flows EXCEPT ![f] =
                    [@ EXCEPT !.pc = "done", !.op = call[1], !.name = call[2],
                              !.value = call[3], !.calls = @ + 1,
                              !.stats = IF call[1] = "get_timer_stats"
                                        THEN get_timer_stats(collector, call[2])
                                        ELSE ZeroStats]]
    /\ UNCHANGED <<sessionVars, metrics, hookVars, llmcall, rulecheck, generated,
                   chatpayload, docs, handoff, catalog>>

TimerCalls ==
    {<<"record_time", "latency", d>> : d \in {0, 2000}}
    \cup {<<"get_timer_stats", n, 0>> : n \in {"latency", "unknown"}}

NextTimerStats == \E call \in TimerCalls : CallAlone("f1", call)

SpecTimerStats == InitTimerStats /\ [][NextTimerStats]_vars

(* normalize.py run again and again on one documentation tree. The tree's *)
(* listing does not change between runs, so each glob finds the same file  *)
(* on every run; which of several matching files it finds is open.         *)

MaxRuns   == 2          \* runs of the script
MaxCopies == 2          \* copies of a block a file holds before the first run

Paths ==
    {"docs/manual_tecnico_canonico.md", "docs/tecnico_canonico_comercial.md",
     "README.md", "GUIA_RAPIDA.md"}

TecnicoMatches   == {"docs/manual_tecnico_canonico.md", "docs/tecnico_canonico_comercial.md"}
ComercialMatches == {"docs/tecnico_canonico_comercial.md"}
GuiaMatches      == {"GUIA_RAPIDA.md"}

\* a text that holds k copies of a block's text
RECURSIVE WithCopies(_, _)
WithCopies(name, k) ==
    IF k = 0 THEN <<"texto">>
    ELSE WithCopies(name, k - 1) \o <<"\n", name, "\n", "texto">>

InitialContents ==
    {Absent, <<>>}
    \cup {WithCopies(name, k) :
            name \in {"SOURCE_OF_TRUTH", "DERIVED_NOTICE"}, k \in 0..MaxCopies}

\* next(glob, None): one of the existing files that match, None without one
Glob(files, matches) ==
    IF \A p \in matches : files[p] = Absent THEN {None}
    ELSE {p \in matches : files[p] # Absent}

InitNormalize ==
    /\ InitSessions
    /\ InitCalls
    /\ secret = NoneStr
    /\ hook = NoHookAnswer
    /\ delivered = NoDeliveries
    /\ sigcheck = NoSigCheck
    /\ collector = MetricsCollector
    /\ flows = [f \in Flows |-> IdleFlow]
    /\ \E files \in [Paths -> InitialContents] :
         \E tecnico \in Glob(files, TecnicoMatches),
            comercial \in Glob(files, ComercialMatches),
            guia \in Glob(files, GuiaMatches) :
             docs = [files |-> files, original |-> files, tecnico |-> tecnico,
                     comercial |-> comercial, guia |-> guia, runs |-> 0]
    /\ handoff = NoHandoff
    /\ catalog = NoCatalog

RunNormalize ==
    /\ docs.runs < MaxRuns
    /\ docs' = [docs EXCEPT !.files = main(@, docs.tecnico, docs.comercial, docs.guia),
                            !.runs = @ + 1]
    /\ UNCHANGED <<sessionVars, metrics, hookVars, llmcall, rulecheck, generated,
                   chatpayload, collector, flows, handoff, catalog>>

NextNormalize == RunNormalize

SpecNormalize == InitNormalize /\ [][NextNormalize]_vars

TypeOK ==
    /\ now \in 0..MaxNow
    /\ Len(heap) <= MaxSessions
    /\ \A i \in 1..Len(heap) :
          /\ heap[i].state \in SessionState
          /\ heap[i].user_id \in Users
          /\ Len(heap[i].messages) <= MaxMessages
    /\ \A u \in Users : store[u] \in 0..Len(heap)

----------------------------------------------------------------------------
(* Claims about the session lifecycle                                      *)

Timeout == SESSION_TIMEOUT_MINUTES * 60

Returned == last.op = "get_or_create_session"

\* C1: once a session has been closed explicitly or found expired by
\* get_or_create_session, no later get_or_create_session returns it, and the
\* first get_or_create_session after the closing returns a session created
\* by that very call (a freshly generated identifier).
C1_ClosedNeverReusedNextIsFresh ==
    Returned =>
        /\ last.session \notin dead
        /\ (last.after # NoSession \/ last.expired # NoSession) => last.created

\* the half of C1 the code keeps: a closed or expired session never comes back
C1_ClosedNeverReturned ==
    Returned => last.session \notin dead

\* C2: right after close_session(u) returned true, get_session(u) returns
\* absent, and the next get_or_create_session(u) returns a session whose
\* identifier differs from the closed session's identifier.
C2_ClosedIsAbsentThenReplaced ==
    /\ (last.op = "close_session" /\ last.ok) =>
          /\ get_session(heap, store, last.user_id).ret = NoSession
          /\ store[last.user_id] = NoSession
          /\ heap[last.session].state = "closed"
    /\ (Returned /\ last.after # NoSession) =>
          /\ last.session # last.after
          /\ heap[last.session].session_id # heap[last.after].session_id

C2_Witness ==
    Returned /\ last.after # NoSession /\ last.created

\* the stored session of u is active and its last access lies more than the
\* timeout in the past
ExpiredStored(u) ==
    /\ store[u] # NoSession
    /\ heap[store[u]].state = "active"
    /\ now - heap[store[u]].last_access > Timeout

\* the stored session of u is active and within its timeout
ValidStored(u) ==
    /\ store[u] # NoSession
    /\ heap[store[u]].state = "active"
    /\ now - heap[store[u]].last_access <= Timeout

\* C3: when the stored active session of a user is older than the timeout,
\* get_or_create_session closes it, removes it from the store and then
\* creates the replacement, which is what the store holds afterwards; the
\* returned session has another identifier and an empty history.
C3_ExpiredIsClosedThenReplaced ==
    [][\A u \in Users :
          (ExpiredStored(u) /\ GetOrCreateSession(u)) =>
              /\ heap'[store[u]].state = "closed"
              /\ store'[u] # store[u]
              /\ store'[u] = last'.session
              /\ last'.created
              /\ last'.session = Len(heap) + 1
              /\ heap'[last'.session].state = "active"
              /\ heap'[last'.session].messages = <<>>
              /\ heap'[last'.session].session_id # heap[store[u]].session_id
      ]_vars

C3_Witness ==
    /\ Returned /\ last.expired # NoSession
    /\ heap[last.expired].state = "closed"
    /\ store[last.user_id] = last.session

\* C4: get_session returns a session only if its state is active; when the
\* stored session is in any other state the entry is removed from the
\* mapping and absent is returned.
C4_LookupReturnsOnlyActive ==
    [][\A u \in Users :
          GetSession(u) =>
              IF store[u] # NoSession /\ heap[store[u]].state = "active"
              THEN last'.session = store[u] /\ store' = store
              ELSE last'.session = NoSession /\ store'[u] = NoSession
      ]_vars

\* an escalated session was in the store and the lookup removed it
C4_Witness ==
    /\ last.op = "get_session" /\ last.session = NoSession
    /\ store[last.user_id] = NoSession
    /\ \E s \in 1..Len(heap) :
          /\ heap[s].state = "escalated"
          /\ heap[s].user_id = last.user_id
          /\ s \notin dead
          /\ \A t \in 1..Len(heap) : t # s => heap[t].state = "closed" /\ t < s

\* C5: validity is re-derived on every access: get_or_create_session never
\* returns, and no call refreshes last_access of, a session for which
\* now > last_access + timeout_minutes.
C5_ExpiredNeverRefreshed ==
    [][\A s \in 1..Len(heap) :
          (now - heap[s].last_access > Timeout) =>
              /\ heap'[s].last_access = heap[s].last_access
              /\ (\E u \in Users : GetOrCreateSession(u)) => last'.session # s
              /\ (store'[heap[s].user_id] = s /\ heap'[s].state = "active") =>
                    store[heap[s].user_id] = s
      ]_vars

\* C6: a stored active session within its timeout (the boundary included)
\* is returned as it is, with only last_access set to now; nothing is created.
C6_ValidIsRefreshedAndReturned ==
    [][\A u \in Users :
          (ValidStored(u) /\ GetOrCreateSession(u)) =>
              /\ last'.session = store[u]
              /\ ~last'.created
              /\ heap' = [heap EXCEPT ![store[u]].last_access = now]
              /\ store' = store
      ]_vars

\* the refresh happened exactly at last_access + timeout
C6_WitnessBoundary ==
    /\ Returned /\ ~last.created
    /\ now = Timeout
    /\ heap[last.session].created_at = 0
    /\ heap[last.session].messages = <<>>
    /\ heap[last.session].last_access = now

IsPrefix(a, b) == Len(a) <= Len(b) /\ SubSeq(b, 1, Len(a)) = a

\* C7: update_session appends exactly a user message and then an assistant
\* message, leaves the earlier messages as they were, sets last_access to
\* now and saves the session; no step ever shortens or reorders a history.
C7_UpdateAppendsOnePair ==
    [][/\ \A s \in 1..Len(heap), m \in ChatMessages, b \in BotReplies :
             UpdateSession(s, m, b) =>
                /\ heap' = [heap EXCEPT
                      ![s].messages = heap[s].messages \o
                            <<Message("user", m, now), Message("assistant", b, now)>>,
                      ![s].last_access = now]
                /\ store' = [store EXCEPT ![heap[s].user_id] =
                                IF heap[s].state = "closed" THEN NoSession ELSE s]
       /\ \A s \in 1..Len(heap) : IsPrefix(heap[s].messages, heap'[s].messages)
      ]_vars

C7_Witness ==
    /\ last.op = "update_session"
    /\ Len(heap[last.session].messages) = 4
    /\ heap[last.session].messages[1].content # heap[last.session].messages[3].content

----------------------------------------------------------------------------
(* Claims about the gateway                                                *)

\* C8: verify_webhook_signature returns true exactly when signature and
\* secret are both present (not None, not empty) and the signature equals the
\* lowercase hex digest of the payload under the secret; otherwise it
\* returns false; it never raises.
C8_SignatureVerification ==
    /\ ~sigcheck.raised
    /\ sigcheck.ret <=>
          /\ sigcheck.signature.present /\ sigcheck.signature.chars # <<>>
          /\ sigcheck.secret.present /\ sigcheck.secret.chars # <<>>
          /\ sigcheck.signature.chars =
                hmac_hexdigest(Encode(sigcheck.secret), sigcheck.payload)

C8_WitnessValid == sigcheck.ret

\* C9: a Tienda Nube request whose signature check fails is answered 401
\* 'Firma inválida' and invokes neither process_new_order nor
\* process_product_update, whatever the event type and payload.
C9_InvalidSignatureRejected ==
    [][(hook'.n = hook.n + 1 /\ hook'.verified = "failed") =>
          /\ hook'.status = 401
          /\ hook'.detail = "Firma inválida"
          /\ hook'.calls = <<>>
          /\ delivered' = delivered
      ]_vars

C9_Witness ==
    /\ hook.verified = "failed" /\ hook.status = 401
    /\ hook.event = "order/created"
    /\ secret.present /\ secret.chars # <<>>
    /\ delivered = NoDeliveries

\* C10: a chat request whose body lacks user_id or message (missing or empty)
\* is answered 400 'Faltan datos requeridos' before anything else happens:
\* no metric is recorded, no session is created or refreshed, and no
\* collaborator (session manager, rules engine, LLM adapter) is called.
C10_MissingDataRejectedFirst ==
    [][\A r \in Requests, body \in ChatBodies :
          (/\ body.kind = "object"
           /\ Falsy(body.user_id) \/ Falsy(body.message)
           /\ ChatWebhookBegin(r, body)) =>
              /\ resp'.status = 400
              /\ resp'.detail = "Faltan datos requeridos"
              /\ resp'.calls = <<>>
              /\ reqs'[r].pc = "done"
              /\ UNCHANGED <<metrics, heap, store, last>>
      ]_vars

\* a request without user_id refused while the store holds a session
C10_Witness ==
    /\ resp.status = 400
    /\ resp.body.user_id = Missing /\ resp.body.message \in ChatMessages
    /\ \E u \in Users : store[u] # NoSession

----------------------------------------------------------------------------
(* Claims about the chat request flow                                      *)

\* request r is answered by this step
Answered(r) ==
    reqs[r].pc # "done" /\ reqs'[r].pc = "done" /\ resp'.request = r

CountOf(call, calls) == Cardinality({i \in DOMAIN calls : calls[i] = call})

\* C11: a chat request answered 200 made exactly one update_session call,
\* which appended to the request's session the request's message as a user
\* message and then an assistant message with the text returned to the
\* caller, on the rule-violation path and on the LLM path alike; no other
\* session's history changed.
C11_AnsweredExchangeIsRecorded ==
    [][\A r \in Requests :
          (Answered(r) /\ resp'.status = 200) =>
              LET s      == last'.session
                  before == IF s <= Len(heap) THEN heap[s].messages ELSE <<>>
              IN  /\ CountOf("update_session", resp'.calls) = 1
                  /\ s \in 1..Len(heap')
                  /\ heap'[s].messages = before \o
                        <<Message("user", resp'.body.message, now),
                          Message("assistant", resp'.response, now)>>
                  /\ \A t \in 1..Len(heap) :
                        t # s => heap'[t].messages = heap[t].messages
      ]_vars

\* an answer of the LLM path recorded as the second exchange of a session
C11_Witness ==
    /\ resp.status = 200 /\ resp.response = "Claro."
    /\ last.op = "update_session"
    /\ Len(heap[last.session].messages) = 4
    /\ heap[last.session].messages[4].content = "Claro."
    /\ heap[last.session].messages[3].content = resp.body.message

CallOrder ==
    <<"track_webhook_received", "get_or_create_session", "check_message",
      "process_message", "generate", "update_session">>

\* calls lists some of the collaborators of CallOrder, in that order
InCallOrder(calls) ==
    \E pos \in [DOMAIN calls -> DOMAIN CallOrder] :
        /\ \A i \in DOMAIN calls : CallOrder[pos[i]] = calls[i]
        /\ \A i, j \in DOMAIN calls : i < j => pos[i] < pos[j]

\* C12: within one chat request the collaborators are called in the order
\* get_or_create_session, check_message, LLM adapter, response generator,
\* update_session; when check_message reports a violation the reply is the
\* rule's canned response and the request ends without calling the LLM
\* adapter or the response generator; otherwise it goes on to the LLM.
C12_CollaboratorOrder ==
    [][\A r \in Requests :
          /\ InCallOrder(reqs'[r].calls)
          /\ reqs'[r].pc = "llm" =>
                reqs'[r].calls[Len(reqs'[r].calls)] = "process_message"
          /\ (Answered(r) /\ resp'.status = 200) =>
                /\ InCallOrder(resp'.calls)
                /\ resp'.calls[Len(resp'.calls)] = "update_session"
                /\ CountOf("get_or_create_session", resp'.calls) = 1
                /\ CountOf("check_message", resp'.calls) = 1
                /\ CountOf("process_message", resp'.calls)
                      = CountOf("generate", resp'.calls)
          /\ \A body \in ChatBodies :
                (chat_payload_error(body) = 0 /\ ChatWebhookBegin(r, body)) =>
                    LET g    == get_or_create_session(heap, store, body.user_id, now)
                        rule == check_message(body.message, g.heap[g.ret], now)
                    IN  IF rule.is_violation
                        THEN /\ Answered(r) /\ resp'.status = 200
                             /\ resp'.response = rule.response
                             /\ CountOf("process_message", resp'.calls) = 0
                             /\ CountOf("generate", resp'.calls) = 0
                        ELSE /\ reqs'[r].pc = "llm"
                             /\ resp' = resp
      ]_vars

\* a forbidden message answered with the canned response, no LLM call
C12_Witness ==
    /\ resp.status = 200 /\ resp.body.message = "odio"
    /\ resp.response = "No puedo procesar ese tipo de solicitud."
    /\ resp.calls = <<"track_webhook_received", "get_or_create_session",
                      "check_message", "update_session">>

----------------------------------------------------------------------------
(* Claims about the LLM adapter                                            *)

\* the providers configured for a call, the primary first
ConfiguredChain(c) ==
    <<c.provider_name>> \o
    SelectSeq(<<"mistral", "groq", "openai">>,
              LAMBDA p : p # c.provider_name /\ p \in c.keys)

\* C13: process_message calls the primary provider first and, only if it
\* fails, the fallback providers in chain order; it returns the output of
\* the first provider that succeeds and calls none after it; if every
\* configured provider fails it returns the fixed apology; no provider is
\* called twice and no provider failure makes it raise.
C13_FirstSuccessfulProviderAnswers ==
    llmcall.called =>
        LET chain == ConfiguredChain(llmcall)
            calls == llmcall.calls
            n     == Len(calls)
        IN  /\ ~llmcall.raised
            /\ n >= 1 /\ n <= Len(chain)
            /\ calls = SubSeq(chain, 1, n)
            /\ \A i, j \in 1..n : i # j => calls[i] # calls[j]
            /\ \A i \in 1..(n - 1) : llmcall.outcome[calls[i]] # "ok"
            /\ IF \E i \in 1..Len(chain) : llmcall.outcome[chain[i]] = "ok"
               THEN /\ llmcall.outcome[calls[n]] = "ok"
                    /\ llmcall.ret = "respuesta de " \o calls[n]
               ELSE /\ n = Len(chain)
                    /\ llmcall.ret = LLM_FALLBACK_TEXT

\* the primary and the first fallback fail, the second fallback answers
C13_Witness ==
    /\ llmcall.called
    /\ llmcall.calls = <<"groq", "mistral", "openai">>
    /\ llmcall.ret = "respuesta de openai"

----------------------------------------------------------------------------
(* Claims about the rules engine                                           *)

Normalize(message) == strip(lower(Text[message]))

MatchesForbidden(text) ==
    LET starts == WordStarts(text) IN
    \E k \in DOMAIN ForbiddenPatterns :
        SearchForbidden(ForbiddenPatterns[k], text, starts)

MatchesLength(c) == Len(Text[c.message]) > 1000

UserIndexes(c) == {i \in DOMAIN c.messages : c.messages[i].role = "user"}

\* the most recent user message of the history has the same normalized text
MatchesRepetition(c, text) ==
    /\ UserIndexes(c) # {}
    /\ LET i == CHOOSE i \in UserIndexes(c) : \A j \in UserIndexes(c) : j <= i
       IN  Normalize(c.messages[i].content) = text

MatchesSpam(c) ==
    Cardinality({i \in UserIndexes(c) : RuleNow - c.messages[i].timestamp < 60}) >= 3

MatchesInjection(text) ==
    LET starts == InjectionStarts(text) IN
    \E k \in DOMAIN InjectionPatterns :
        SearchInjection(InjectionPatterns[k], text, starts)

\* which of the five inbound rules match the call c, in the order of the spec
RuleMatches(c) ==
    LET text == Normalize(c.message) IN
    <<MatchesForbidden(text), MatchesLength(c), MatchesRepetition(c, text),
      MatchesSpam(c), MatchesInjection(text)>>

RuleNames ==
    <<{"forbidden_pattern_" \o ForbiddenPatterns[k].name :
          k \in DOMAIN ForbiddenPatterns},
      {"message_too_long"}, {"repeated_message"}, {"spam_detected"},
      {"prompt_injection"}>>

\* C14: check_message evaluates forbidden pattern, excessive length, exact
\* repetition, spam by frequency, prompt injection in this order and returns
\* the result of the first rule that matches; if none matches the result is
\* a non-violation named all_rules_passed with confidence 1.0.
C14_FirstMatchingRuleWins ==
    rulecheck.called =>
        LET matches == RuleMatches(rulecheck) IN
        IF \E k \in 1..5 : matches[k]
        THEN LET first == CHOOSE k \in 1..5 :
                            matches[k] /\ \A j \in 1..(k - 1) : ~matches[j]
             IN  /\ rulecheck.result.is_violation
                 /\ rulecheck.result.rule_name \in RuleNames[first]
        ELSE /\ ~rulecheck.result.is_violation
             /\ rulecheck.result.rule_name = "all_rules_passed"
             /\ rulecheck.result.confidence = 100

\* a message that is forbidden, too long, and sent during a burst
C14_Witness ==
    /\ rulecheck.called
    /\ RuleMatches(rulecheck)[1] /\ RuleMatches(rulecheck)[2]
    /\ RuleMatches(rulecheck)[4]
    /\ rulecheck.result.rule_name = "forbidden_pattern_discrimination"

\* C15: a message longer than 1000 characters that matches no forbidden
\* pattern is a violation named message_too_long whatever the history; a
\* message of 1000 characters or fewer is never rejected by the length rule.
C15_LengthRule ==
    rulecheck.called =>
        /\ (Len(Text[rulecheck.message]) > 1000
            /\ ~MatchesForbidden(Normalize(rulecheck.message))) =>
              /\ rulecheck.result.is_violation
              /\ rulecheck.result.rule_name = "message_too_long"
        /\ Len(Text[rulecheck.message]) <= 1000 =>
              rulecheck.result.rule_name # "message_too_long"

\* exactly 1000 characters, repeated and in a burst: not a length violation
C15_WitnessBoundary ==
    /\ rulecheck.called
    /\ Len(Text[rulecheck.message]) = 1000
    /\ Len(rulecheck.messages) = 3
    /\ rulecheck.result.rule_name = "spam_detected"

\* C16: when the normalized message equals the normalized content of the
\* most recent user message and neither the forbidden nor the length rule
\* fires, the result is repeated_message; a message that differs from the
\* most recent user message is not a repetition, even if it equals an
\* older one.
C16_RepetitionRule ==
    rulecheck.called =>
        LET matches == RuleMatches(rulecheck) IN
        /\ (matches[3] /\ ~matches[1] /\ ~matches[2]) =>
              /\ rulecheck.result.is_violation
              /\ rulecheck.result.rule_name = "repeated_message"
        /\ ~matches[3] => rulecheck.result.rule_name # "repeated_message"

\* the message equals an older user message but not the most recent one
C16_WitnessOlderOnly ==
    /\ rulecheck.called
    /\ rulecheck.message = " Hola "
    /\ Len(rulecheck.messages) = 3
    /\ rulecheck.messages[1].role = "user"
    /\ rulecheck.messages[1].content = "hola"
    /\ rulecheck.messages[2].role = "user"
    /\ rulecheck.messages[2].content = "chau"
    /\ rulecheck.messages[3].role = "assistant"
    /\ rulecheck.result.rule_name = "all_rules_passed"

----------------------------------------------------------------------------
(* Claims about the response generator                                     *)

\* the position at which the truncation notice begins in out; 0 when absent
NoticeStart(out) ==
    LET n == Len(TRUNCATION_NOTICE)
        at == {i \in 1..(Len(out) - n + 1) :
                  out[i] = "\n" /\ SubSeq(out, i, i + n - 1) = TRUNCATION_NOTICE}
    IN  IF at = {} THEN 0 ELSE CHOOSE i \in at : \A j \in at : i <= j

\* C17: for a command-expanded text longer than max_response_length the
\* text generate returns keeps at most max_response_length characters of it
\* and is at most max_response_length plus the length of the truncation
\* notice long.
C17_TruncatedLengthBound ==
    (generated.called /\ Len(generated.text) > MAX_RESPONSE_LENGTH) =>
        /\ NoticeStart(generated.out) \in 1..(MAX_RESPONSE_LENGTH + 1)
        /\ SubSeq(generated.out, 1, NoticeStart(generated.out) - 1)
              = SubSeq(generated.text, 1, NoticeStart(generated.out) - 1)
        /\ Len(generated.out) <= MAX_RESPONSE_LENGTH + Len(TRUNCATION_NOTICE)

\* what does hold: the kept part is a prefix of at most max_response_length
\* characters, and the full stop _format_response appends after the notice
\* makes the text one character longer than the bound of C17
C17_TruncatedLengthPlusFullStop ==
    (generated.called /\ Len(generated.text) > MAX_RESPONSE_LENGTH) =>
        /\ NoticeStart(generated.out) \in 1..(MAX_RESPONSE_LENGTH + 1)
        /\ SubSeq(generated.out, 1, NoticeStart(generated.out) - 1)
              = SubSeq(generated.text, 1, NoticeStart(generated.out) - 1)
        /\ generated.out[Len(generated.out)] = "."
        /\ Len(generated.out) <= MAX_RESPONSE_LENGTH + Len(TRUNCATION_NOTICE) + 1

\* a text without a sentence boundary is cut at max_response_length and
\* comes back one character longer than the bound
C17_OverlongReached ==
    /\ generated.called
    /\ Len(generated.text) = MAX_RESPONSE_LENGTH + 1
    /\ Len(generated.out) = MAX_RESPONSE_LENGTH + Len(TRUNCATION_NOTICE) + 1

----------------------------------------------------------------------------
(* Claims about the chat payload schema                                    *)

\* the characters of text without the whitespace at its two ends
Trimmed(text) ==
    LET inner == {i \in DOMAIN text : text[i] \notin Whitespace}
    IN  IF inner = {} THEN <<>>
        ELSE SubSeq(text, CHOOSE i \in inner : \A j \in inner : i <= j,
                          CHOOSE i \in inner : \A j \in inner : j <= i)

\* C18: constructing WebhookChatPayload with any field other than user_id
\* and message fails validation; constructing it with exactly user_id and
\* message (text values) succeeds and yields the two values with the
\* surrounding whitespace trimmed and otherwise unchanged.
C18_PayloadSchema ==
    chatpayload.called =>
        LET kwargs == chatpayload.kwargs
        IN  /\ (DOMAIN kwargs \ PayloadFields # {}) => ~chatpayload.result.ok
            /\ (/\ DOMAIN kwargs = PayloadFields
                /\ \A f \in PayloadFields : kwargs[f].type = "str") =>
                   /\ chatpayload.result.ok
                   /\ chatpayload.result.user_id = Trimmed(kwargs["user_id"].chars)
                   /\ chatpayload.result.message = Trimmed(kwargs["message"].chars)

\* both fields given with whitespace around them, and both come back trimmed
C18_WitnessTrimmed ==
    /\ chatpayload.called
    /\ DOMAIN chatpayload.kwargs = PayloadFields
    /\ chatpayload.kwargs["user_id"] = StrValue(<<" ", "u", "1", " ">>)
    /\ chatpayload.result.ok
    /\ chatpayload.result.user_id = <<"u", "1">>
    /\ chatpayload.result.message = <<"h", "o", " ", "l", "a">>

----------------------------------------------------------------------------
(* Claims about the metrics collector                                      *)

\* v is what the samples, sorted ascending, hold at Python index k
SortedAt(times, k, v) ==
    /\ \E j \in DOMAIN times : times[j] = v
    /\ Cardinality({j \in DOMAIN times : times[j] < v}) <= k
    /\ k < Cardinality({j \in DOMAIN times : times[j] <= v})

\* floor(n * percent / 100)
FloorOf(n, percent) ==
    CHOOSE k \in 0..n : 100 * k <= n * percent /\ n * percent < 100 * (k + 1)

\* C19: for a series with n >= 1 retained samples get_timer_stats returns
\* count n, the minimum, the maximum, the arithmetic mean, and p50, p95, p99
\* equal to the ascending-sorted samples at index floor(n*0.5),
\* floor(n*0.95), floor(n*0.99), each index in 0..n-1; for an empty or
\* unknown series it returns count 0 and zero for every statistic.
C19_TimerStats ==
    \A f \in Flows :
        (flows[f].op = "get_timer_stats" /\ flows[f].pc = "done") =>
            LET times == Get(collector._timers, flows[f].name, <<>>)
                n     == Len(times)
                st    == flows[f].stats
            IN  IF n = 0
                THEN /\ st.count = 0 /\ st.avg[1] = 0 /\ st.avg[2] # 0
                     /\ st.min = 0 /\ st.max = 0
                     /\ st.p50 = 0 /\ st.p95 = 0 /\ st.p99 = 0
                ELSE /\ n <= MAX_TIMER_SAMPLES
                     /\ st.count = n
                     /\ SortedAt(times, 0, st.min)
                     /\ SortedAt(times, n - 1, st.max)
                     /\ st.avg[2] # 0
                     /\ st.avg[1] * n = SumOf(times, 1, n) * st.avg[2]
                     /\ \A q \in {<<50, st.p50>>, <<95, st.p95>>, <<99, st.p99>>} :
                           /\ FloorOf(n, q[1]) \in 0..(n - 1)
                           /\ SortedAt(times, FloorOf(n, q[1]), q[2])

\* the samples 10, 9, ..., 1: p50 is the sixth smallest, p95 and p99 the
\* largest, the mean 55/10
C19_WitnessTenSamples ==
    /\ flows["f1"].op = "get_timer_stats"
    /\ flows["f1"].name = "latency"
    /\ flows["f1"].pc = "done"
    /\ Get(collector._timers, "latency", <<>>) = [i \in 1..10 |-> 11 - i]
    /\ flows["f1"].stats =
          [count |-> 10, avg |-> <<55, 10>>, min |-> 1, max |-> 10,
           p50 |-> 6, p95 |-> 10, p99 |-> 10]

\* flow f stands inside a call of get_all_metrics that has not returned
InGetAllMetrics(f) ==
    flows[f].op = "get_all_metrics" /\ flows[f].pc # "done"

\* the step in which f's get_all_metrics returns hands back every metric's
\* value and count and the statistics of every series
ReturnsEverything(f) ==
    (InGetAllMetrics(f) /\ flows'[f].pc = "done") =>
        LET dump == flows'[f].dump
        IN  /\ DOMAIN dump.metrics = DOMAIN collector._metrics
            /\ \A n \in DOMAIN collector._metrics :
                  /\ dump.metrics[n].value = collector._metrics[n]
                  /\ dump.metrics[n].count = Get(collector._counters, n, 0)
            /\ DOMAIN dump.stats = DOMAIN collector._timers
            /\ \A n \in DOMAIN collector._timers :
                  dump.stats[n].count = Len(collector._timers[n])

\* C20: get_all_metrics, called on a collector in any reachable state (also
\* with recorded timing series, and while other flows call increment, set
\* or record_time), terminates and returns every metric's value and call
\* count together with the timing statistics of every series. Termination:
\* while a call of get_all_metrics has not returned, some flow can step.
C20_GetAllMetricsTerminates ==
    /\ [](\A f \in Flows : InGetAllMetrics(f) => ENABLED NextMetrics)
    /\ [][\A f \in Flows : ReturnsEverything(f)]_vars

\* the half of C20 the code keeps: a call that returns, returns everything
C20_ReturnedDumpIsComplete == [][\A f \in Flows : ReturnsEverything(f)]_vars

\* a call of get_all_metrics on a collector without timing series returns
\* the metrics other flows have set
C20_ReturnsWithoutSeries ==
    \E f \in Flows :
        /\ flows[f].op = "get_all_metrics"
        /\ flows[f].pc = "done"
        /\ DOMAIN flows[f].dump.metrics # {}

\* a flow waits for the lock it holds itself
C20_SelfDeadlock ==
    \E f \in Flows :
        /\ flows[f].pc = "inner_acquire"
        /\ collector._lock = f

----------------------------------------------------------------------------
(* Claims about the chat endpoint's answers                                *)

\* the payload is malformed, incomplete, or carries an undeclared field
RefusedByContract(body) ==
    \/ body.kind # "object"
    \/ Falsy(body.user_id)
    \/ Falsy(body.message)

\* C21: a chat request whose payload is malformed or incomplete, or that
\* carries a field other than user_id and message, is answered with HTTP
\* 400 and a fixed message, and is never logged as an exception nor
\* answered with HTTP 500.
C21_BadPayloadIs400 ==
    (resp.request # 0 /\ RefusedByContract(resp.body)) =>
        /\ resp.status = 400
        /\ resp.detail = "Faltan datos requeridos"
        /\ ~LoggedException(resp.status)

\* the part of C21 the code keeps: an object without user_id or without
\* message is answered 400 with the fixed message and is not logged
C21_IncompleteObjectIs400 ==
    (/\ resp.request # 0
     /\ resp.body.kind \in ObjectKinds
     /\ (Falsy(resp.body.user_id) \/ Falsy(resp.body.message))) =>
        /\ resp.status = 400
        /\ resp.detail = "Faltan datos requeridos"
        /\ ~LoggedException(resp.status)

\* a payload with an undeclared field next to both declared ones is served
C21_ExtraFieldServed ==
    /\ resp.request # 0
    /\ resp.body.kind = "object_extra"
    /\ resp.status = 200

\* a body that is not JSON is answered 500 and logged
C21_MalformedIs500 ==
    /\ resp.request # 0
    /\ resp.body.kind = "invalid_json"
    /\ resp.status = 500

----------------------------------------------------------------------------
(* Claims about interleaved chat requests                                  *)

\* C22: two chat requests for the same user interleaved at the LLM call can
\* lose an update, because the store does no per-key locking or version
\* check and the last save_session wins: whatever the store holds for the
\* user when a request comes back from the LLM call, its update_session
\* overwrites the entry with the request's own session (or removes the
\* entry when that session has been closed in the meantime).
C22_LastSaveWins ==
    [][\A r \in Requests, o \in LLMOutputs :
          ChatWebhookFinish(r, o) =>
              LET s == reqs[r].session
              IN  /\ store'[reqs[r].user_id] =
                        (IF heap[s].state = "closed" THEN NoSession ELSE s)
                  /\ Len(heap'[s].messages) = Len(heap[s].messages) + 2
      ]_vars

\* the lost update: request 1 was given session 1, request 2 arrived during
\* request 1's LLM call and was given the newer session 2; request 1's pair
\* went to session 1 after session 2 existed, and the session the store
\* holds for the user has request 2's pair only
C22_WitnessLostUpdate ==
    /\ reqs[1].pc = "done" /\ reqs[2].pc = "done"
    /\ Len(heap) = 2
    /\ heap[2].created_at > heap[1].created_at
    /\ Len(heap[1].messages) = 2
    /\ heap[1].messages[1].timestamp >= heap[2].created_at
    /\ store["u1"] = 2
    /\ Len(heap[2].messages) = 2

\* what process_message returns when the primary provider and every
\* fallback provider fail, whichever provider is configured as primary and
\* whichever providers have keys
AllProvidersFailed ==
    {process_message(p, _get_fallback_providers(p, keys), outcome).ret :
        p \in ProviderNames, keys \in SUBSET ProviderNames,
        outcome \in [ProviderNames -> ProviderOutcomes \ {"ok"}]}

\* C23: when the rules engine passes a message and every configured LLM
\* provider fails, POST /webhook/chat still answers HTTP 200 with an
\* apologetic text as response, and that same text is recorded as the
\* assistant message of the exchange in the session history.
C23_ProvidersFailedStillAnswered ==
    [][\A r \in Requests, o \in AllProvidersFailed :
          ChatWebhookFinish(r, o) =>
              LET messages == heap'[reqs[r].session].messages
                  n        == Len(messages)
              IN  /\ resp'.request = r
                  /\ resp'.status = 200
                  /\ resp'.detail = ""
                  /\ resp'.response = "Lo siento, estoy experimentando dificultades técnicas. Por favor, intenta más tarde."
                  /\ n = Len(heap[reqs[r].session].messages) + 2
                  /\ messages[n - 1].role = "user"
                  /\ messages[n - 1].content = reqs[r].message
                  /\ messages[n].role = "assistant"
                  /\ messages[n].content = resp'.response
      ]_vars

\* a request answered 200 with the apology, which ends the stored history
C23_WitnessApologyRecorded ==
    /\ resp.request # 0
    /\ resp.status = 200
    /\ resp.response = LLM_FALLBACK_TEXT
    /\ store["u1"] # NoSession
    /\ heap[store["u1"]].messages # <<>>
    /\ heap[store["u1"]].messages[Len(heap[store["u1"]].messages)]
          = Message("assistant", LLM_FALLBACK_TEXT, now)

----------------------------------------------------------------------------
(* Claims about the documentation normalizer                               *)

\* the blocks main puts into the file at path p
BlocksFor(p) ==
    (IF p = docs.tecnico
     THEN {"SOURCE_OF_TRUTH"} \cup {TecnicoBlocks[i] : i \in DOMAIN TecnicoBlocks}
     ELSE {})
    \cup (IF p \in {docs.comercial, "README.md"} THEN {"DERIVED_NOTICE"} ELSE {})
    \cup (IF p = docs.guia THEN {"FASE_C_NOTICE"} ELSE {})

Copies(content, name) ==
    Cardinality({i \in DOMAIN content : content[i] = name})

Normalized == docs.runs >= 1

\* C24 as stated: a further run leaves every file unchanged, and after any
\* number of runs each canonical block occurs exactly once in its target
\* file.
C24_IdempotentExactlyOnce ==
    /\ [](Normalized =>
            \A p \in Paths : docs.files[p] # Absent =>
                \A name \in BlocksFor(p) : Copies(docs.files[p], name) = 1)
    /\ [][Normalized => docs'.files = docs.files]_vars

\* C24, amended: running the normalizer again on files it has already
\* normalized leaves the content of every file unchanged; after any number
\* of runs each canonical block occurs in its target file, exactly once
\* when the file held at most one copy of it before the first run, and as
\* often as before the first run otherwise.
C24_IdempotentAtLeastOnce ==
    /\ [](Normalized =>
            \A p \in Paths : docs.files[p] # Absent =>
                \A name \in BlocksFor(p) :
                    Copies(docs.files[p], name) =
                        (IF Copies(docs.original[p], name) <= 1 THEN 1
                         ELSE Copies(docs.original[p], name)))
    /\ [][Normalized => docs'.files = docs.files]_vars

\* after the second run: the technical document carries all its five blocks
\* and the README its notice
C24_WitnessSecondRun ==
    /\ docs.runs = 2
    /\ docs.tecnico = "docs/manual_tecnico_canonico.md"
    /\ \A name \in BlocksFor(docs.tecnico) :
          Copies(docs.files[docs.tecnico], name) = 1
    /\ docs.files["README.md"] =
          Block("DERIVED_NOTICE") \o <<"\n", "\n">> \o <<"texto">>

----------------------------------------------------------------------------
(* Claims about the store under stale references                           *)

\* session s is a stale reference: it has been closed or escalated, and the
\* store holds a newer, active session for its user
StaleBesideNewer(s) ==
    /\ s \in 1..Len(heap)
    /\ heap[s].state \in {"closed", "escalated"}
    /\ store[heap[s].user_id] \notin {NoSession, s}
    /\ heap[store[heap[s].user_id]].state = "active"

\* C25: save_session never removes or replaces a session other than the
\* one it is given: when update_session is called on a session that was
\* closed or escalated in the meantime, after a newer session has been
\* created for the same user, the newer active session is still the one
\* the store returns for that user afterwards.
C25_StaleUpdateKeepsNewerSession ==
    [][\A s \in 1..MaxSessions, m \in ChatMessages, b \in BotReplies :
          (StaleBesideNewer(s) /\ UpdateSession(s, m, b)) =>
              get_session(heap', store', heap[s].user_id).ret
                  = store[heap[s].user_id]
      ]_vars

\* update_session on a closed session has emptied the user's entry while a
\* newer active session exists
C25_NewerSessionRemoved ==
    /\ last.op = "update_session"
    /\ heap[last.session].state = "closed"
    /\ store[last.user_id] = NoSession
    /\ \E n \in 1..Len(heap) :
          n > last.session /\ heap[n].user_id = last.user_id
                           /\ heap[n].state = "active"

\* update_session on an escalated session has put it in the place of the
\* newer active session
C25_NewerSessionReplaced ==
    /\ last.op = "update_session"
    /\ heap[last.session].state = "escalated"
    /\ store[last.user_id] = last.session
    /\ \E n \in 1..Len(heap) :
          n > last.session /\ heap[n].user_id = last.user_id
                           /\ heap[n].state = "active"

\* C26: save_session stores the session under its user_id unless its state
\* is closed, in which case the entry for that user_id is removed instead;
\* consequently, after any sequence of session-manager operations the store
\* never contains a session whose state is closed.
\* last is the operation that has just saved last.session.
C26_StoreHoldsNoClosedSession ==
    /\ \A u \in Users :
          store[u] # NoSession => heap[store[u]].state # "closed"
    /\ (last.op \in {"update_session", "get_or_create_session"}
          \/ (last.op = "close_session" /\ last.ok)) =>
            store[last.user_id] =
                (IF heap[last.session].state = "closed" THEN NoSession
                 ELSE last.session)

\* close_session has closed the stored session and its entry is gone
C26_WitnessClosedRemoved ==
    /\ last.op = "close_session"
    /\ last.ok
    /\ heap[last.session].state = "closed"
    /\ heap[last.session].messages # <<>>
    /\ store[last.user_id] = NoSession

----------------------------------------------------------------------------
(* Claims about the hand-off                                               *)

\* what C27 expects of a get_or_create_session for user u after session e
\* has been escalated: a session created by the call, not e, with another
\* identifier and an empty history, and e no longer in the store
RenewedAfterHandoff(u, e) ==
    /\ last'.session # e
    /\ last'.created
    /\ heap'[last'.session].session_id # heap[e].session_id
    /\ heap'[last'.session].messages = <<>>
    /\ store'[u] = last'.session

\* C27: after initiate_handoff has set a session's state to escalated, the
\* next get_or_create_session for that user does not return the escalated
\* session: the store evicts it on lookup and a new session with a
\* different identifier and empty history is created. (Stated for the
\* get_or_create_session that follows the hand-off directly.)
C27_HandoffThenNewSession ==
    [][\A u \in Users :
          (last.op = "initiate_handoff" /\ last.user_id = u
             /\ GetOrCreateSession(u)) =>
              RenewedAfterHandoff(u, last.session)
      ]_vars

\* the part of C27 the code keeps: the escalated session is never returned,
\* and when the store holds it (or nothing) a new session is created
C27_EscalatedStoredIsReplaced ==
    [][\A u \in Users :
          (last.op = "initiate_handoff" /\ last.user_id = u
             /\ GetOrCreateSession(u)) =>
              /\ last'.session # last.session
              /\ heap'[last'.session].state = "active"
              /\ store[u] \in {NoSession, last.session} =>
                    RenewedAfterHandoff(u, last.session)
      ]_vars

\* the history alternates user, assistant, ... from its first message
Alternates(messages) ==
    \A i \in 1..Len(messages) :
        messages[i].role = (IF i % 2 = 1 THEN "user" ELSE "assistant")

\* C28: in every reachable state of the chat flow, interleaved requests of
\* one user included, each session's history has even length and
\* alternates user, assistant from the first message, and a request's
\* user message is directly followed by the reply of the same request.
C28_HistoryAlternates ==
    /\ \A s \in 1..Len(heap) :
          /\ Len(heap[s].messages) % 2 = 0
          /\ Alternates(heap[s].messages)
    /\ resp.status = 200 =>
          \E s \in 1..Len(heap) :
              \E i \in 1..Len(heap[s].messages) - 1 :
                  /\ i % 2 = 1
                  /\ heap[s].user_id = resp.body.user_id
                  /\ heap[s].messages[i].content = resp.body.message
                  /\ heap[s].messages[i + 1].content = resp.response
                  /\ heap[s].messages[i + 1].timestamp =
                        heap[s].messages[i].timestamp

\* two requests of one user are in flight together and both have recorded
\* their exchange in the same session
C28_WitnessInterleaved ==
    /\ \A r \in Requests : reqs[r].pc = "done"
    /\ \E s \in 1..Len(heap) : Len(heap[s].messages) = 4
    /\ resp.request = 1
    /\ resp.calls = CallsToLLM \o <<"generate", "update_session">>

----------------------------------------------------------------------------
(* Claims about the dispatch of Tienda Nube events                         *)

\* a request has been answered whose signature the handler found valid
SignedRequestAnswered ==
    hook'.n = hook.n + 1 /\ hook'.verified = "passed"

\* exactly the stub for the event type is invoked, once, with the payload
DispatchedTo(event_type) ==
    /\ hook'.calls =
          (CASE event_type = "order/created" -> <<"process_new_order">>
             [] event_type = "product/updated" -> <<"process_product_update">>
             [] OTHER -> <<>>)
    /\ \A stub \in DOMAIN delivered :
          delivered'[stub] = delivered[stub]
                             + (IF hook'.calls = <<stub>> THEN 1 ELSE 0)
    /\ hook'.calls # <<>> => hook'.argument \in HookBodies
    /\ hook'.calls = <<>> => hook'.argument = NoArgument

AnsweredProcessed(event_type) ==
    /\ hook'.status = 200
    /\ hook'.response = [status |-> "processed", event |-> event_type]

\* C29: for a POST /webhook/tiendanube with a valid signature, order/created
\* invokes process_new_order exactly once with the payload and never
\* process_product_update, product/updated invokes process_product_update
\* exactly once and never process_new_order, any other or missing event
\* type invokes neither, and in all three cases the answer is HTTP 200 with
\* status 'processed' and the received event type echoed.
C29_ValidSignatureProcessed ==
    [][SignedRequestAnswered =>
          /\ DispatchedTo(hook'.event)
          /\ AnsweredProcessed(hook'.event)
      ]_vars

\* what the handler does once it has found the signature valid: the
\* dispatch is as C29 says, and the answer is 200 'processed' unless the
\* stub was handed a JSON value that is not an object, which is answered 500
C29_ValidSignatureDispatched ==
    [][SignedRequestAnswered =>
          /\ DispatchedTo(hook'.event)
          /\ IF hook'.calls = <<>> \/ hook'.argument.kind = "object"
             THEN AnsweredProcessed(hook'.event)
             ELSE /\ hook'.status = 500
                  /\ hook'.detail = "Error interno del servidor"
                  /\ hook'.response = NoResponse
      ]_vars

\* a signed order/created whose body is a JSON list reached the stub and
\* was answered 500
C29_SignedListIs500 ==
    /\ hook.verified = "passed"
    /\ hook.event = "order/created"
    /\ hook.calls = <<"process_new_order">>
    /\ hook.argument.kind = "not_object"
    /\ hook.status = 500

\* a signed product/updated with a JSON object was processed
C29_SignedObjectProcessed ==
    /\ hook.verified = "passed"
    /\ hook.status = 200
    /\ hook.response = Processed("product/updated")
    /\ delivered = [NoDeliveries EXCEPT !.process_product_update = 1]

----------------------------------------------------------------------------
(* app/gateway/router.py, the except clauses of both handlers (lines 87-94 *)
(* and 158-165), with a collaborator that raises at a step of the handler  *)

\* what leaves the try block of a handler
HTTPException(status_code, detail) ==
    [kind |-> "HTTPException", status_code |-> status_code, detail |-> detail]
OtherException == [kind |-> "Exception", status_code |-> 0, detail |-> ""]

\* variant without the `except Exception` clause: the exception leaves the
\* handler and the server answers with its own 500
except_clauses_unhandled(outcome) ==
    IF outcome.kind = "Exception"
    THEN HTTPException(500, "Internal Server Error")
    ELSE outcome

\* `except HTTPException: raise` and `except Exception: raise
\* HTTPException(500, ...)`
except_clauses(outcome) ==
    IF outcome.kind = "Exception"
    THEN HTTPException(500, "Error interno del servidor")
    ELSE outcome

\* the calls made up to and including the one that raises
UpTo(calls, step) ==
    SubSeq(calls, 1, CHOOSE i \in 1..Len(calls) : calls[i] = step)

\* the collaborators chat_webhook calls before the LLM, and from the LLM on
StepsToRules == {"track_webhook_received", "get_or_create_session",
                 "check_message", "update_session"}
StepsFromLLM == {"process_message", "generate", "update_session"}

\* chat_webhook with an accepted payload, in which the collaborator `step`
\* raises; a collaborator that raises leaves no effect of its own
ChatWebhookBeginRaises(r, body, step) ==
    LET g    == get_or_create_session(heap, store, body.user_id, now)
        rule == check_message(body.message, g.heap[g.ret], now)
        a    == except_clauses(OtherException)
        tracked == step # "track_webhook_received"
        gotten  == step \in {"check_message", "update_session"}
    IN  /\ Arrives(r)
        /\ chat_payload_error(body) = 0
        /\ step = "update_session" => rule.is_violation
        /\ gotten => Len(g.heap) <= MaxSessions
        /\ metrics' = IF tracked
                      THEN track_webhook_received(metrics, "chat", "message")
                      ELSE metrics
        /\ heap' = IF gotten THEN g.heap ELSE heap
        /\ store' = IF gotten THEN g.store ELSE store
        /\ dead' = IF gotten THEN dead \cup ClosedBetween(heap, g.heap) ELSE dead
        /\ mustRenew' = IF gotten
                        THEN [mustRenew EXCEPT ![body.user_id] = NoSession]
                        ELSE mustRenew
        /\ last' = IF gotten THEN ObservedGetOrCreate(body.user_id, g) ELSE last
        /\ reqs' = [reqs EXCEPT ![r] = DoneRequest]
        /\ resp' = HttpAnswer(r, body, a.status_code, a.detail, "",
                              UpTo(CallsToRules \o <<"update_session">>, step))
        /\ UNCHANGED <<now, hookVars, unitVars>>

\* the second half of chat_webhook, in which the collaborator `step` raises
ChatWebhookFinishRaises(r, step) ==
    LET a == except_clauses(OtherException) IN
    /\ reqs[r].pc = "llm"
    /\ reqs' = [reqs EXCEPT ![r] = DoneRequest]
    /\ resp' = HttpAnswer(r, [kind |-> "object", user_id |-> reqs[r].user_id,
                              message |-> reqs[r].message],
                          a.status_code, a.detail, "",
                          UpTo(reqs[r].calls \o <<"generate", "update_session">>,
                               step))
    /\ UNCHANGED <<now, heap, store, metrics, last, dead, mustRenew, hookVars,
                   unitVars>>

\* the steps of tiendanube_webhook after request.json(): line 69, line 73
\* (request.body()) and the stub of lines 78-81
HookSteps == {"track_webhook_received", "body", "stub"}

\* tiendanube_webhook on a JSON body, in which `step` raises
TiendanubeWebhookRaises(body, event_type, signature, step) ==
    LET a == except_clauses(OtherException)
        stub == step = "stub"
    IN  /\ hook.n < MaxDeliveries
        /\ body.kind # "invalid_json"
        /\ stub => /\ verify_webhook_signature(signature, body.bytes, secret).ret
                   /\ Dispatch(event_type) # <<>>
        /\ hook' = [HookAnswer(hook.n + 1, a.status_code, a.detail, event_type,
                               IF stub THEN "passed" ELSE "not_run",
                               IF stub THEN Dispatch(event_type) ELSE <<>>)
                        EXCEPT !.argument = IF stub THEN body ELSE NoArgument]
        /\ metrics' = IF step # "track_webhook_received"
                      THEN track_webhook_received(metrics, "tiendanube", event_type)
                      ELSE metrics
        /\ delivered' = IF stub
                        THEN [delivered EXCEPT ![Dispatch(event_type)[1]] = @ + 1]
                        ELSE delivered
        /\ UNCHANGED <<sessionVars, secret, sigcheck, unitVars>>

\* x-signature header values: absent, or the digest of the body
Digests ==
    [sec \in Secrets, b \in HookBodies |-> hmac_hexdigest(Encode(sec), b.bytes)]

SignedOrNot(body) == {NoneStr, Str(Digests[secret, body])}

\* a behaviour serves one of the two endpoints: the handlers share nothing
\* but the metric counters
ChatOnly == hook.n = 0
HookOnly == \A r \in Requests : reqs[r].pc = "idle"

NextFaults ==
    \/ ChatOnly /\ \E r \in Requests, body \in ChatBodies :
                      ChatWebhookBegin(r, body)
    \/ ChatOnly /\ \E r \in Requests, o \in LLMOutputs :
                      ChatWebhookFinish(r, o)
    \/ ChatOnly /\ \E r \in Requests, body \in ChatBodies, step \in StepsToRules :
                      ChatWebhookBeginRaises(r, body, step)
    \/ ChatOnly /\ \E r \in Requests, step \in StepsFromLLM :
                      ChatWebhookFinishRaises(r, step)
    \/ HookOnly /\ \E b \in HookBodies, e \in EventTypes :
                      \E signature \in SignedOrNot(b) :
                          TiendanubeWebhook(b, e, signature)
    \/ HookOnly /\ \E b \in HookBodies, e \in EventTypes, step \in HookSteps :
                      \E signature \in SignedOrNot(b) :
                          TiendanubeWebhookRaises(b, e, signature, step)

SpecFaults == InitWebhook /\ [][NextFaults]_vars

\* the answers a handler gives: 200, or an error of the given status and
\* detail
ErrorAnswers(own_status, own_detail) ==
    {<<200, "">>, <<own_status, own_detail>>,
     <<500, "Error interno del servidor">>}

\* the last chat answer: 200, the handler's own 400, or 500
ChatAnswerMapped ==
    /\ <<resp.status, resp.detail>> \in
          ErrorAnswers(400, "Faltan datos requeridos")
    /\ (resp.status = 400) <=>
          (resp.body.kind = "object"
             /\ (Falsy(resp.body.user_id) \/ Falsy(resp.body.message)))
    /\ (resp.body.kind # "object") => (resp.status = 500)

\* the last Tienda Nube answer: 200, the handler's own 401, or 500
HookAnswerMapped ==
    /\ <<hook.status, hook.detail>> \in ErrorAnswers(401, "Firma inválida")
    /\ (hook.status = 401) <=> (hook.verified = "failed")
    /\ (hook.verified = "not_run") => (hook.status = 500)

\* C30: in both webhook handlers an HTTPException raised inside the handler
\* (400 for missing chat data, 401 for an invalid signature) reaches the
\* caller with its own status and detail, any other exception raised at any
\* step of the handler is answered with HTTP 500 and detail 'Error interno
\* del servidor', and the handler body produces no other error status.
C30_ExceptionsMapped ==
    /\ []((resp.request # 0) => ChatAnswerMapped)
    /\ []((hook.n # 0) => HookAnswerMapped)
    /\ [][/\ \A r \in Requests, body \in ChatBodies, step \in StepsToRules :
                ChatWebhookBeginRaises(r, body, step) =>
                    /\ resp'.status = 500
                    /\ resp'.detail = "Error interno del servidor"
          /\ \A r \in Requests, step \in StepsFromLLM :
                ChatWebhookFinishRaises(r, step) =>
                    /\ resp'.status = 500
                    /\ resp'.detail = "Error interno del servidor"
          /\ \A b \in HookBodies, e \in EventTypes, step \in HookSteps :
                \A signature \in SignedOrNot(b) :
                    TiendanubeWebhookRaises(b, e, signature, step) =>
                        /\ hook'.status = 500
                        /\ hook'.detail = "Error interno del servidor"
         ]_vars

\* update_session raised after the LLM had answered: the request ended in
\* 500 with every collaborator called
C30_WitnessLateFault ==
    /\ resp.status = 500
    /\ resp.detail = "Error interno del servidor"
    /\ resp.calls = CallsToLLM \o <<"generate", "update_session">>
    /\ \A s \in 1..Len(heap) : heap[s].messages = <<>>

\* a stub raised on a signed JSON object
C30_WitnessStubFault ==
    /\ hook.status = 500
    /\ hook.verified = "passed"
    /\ hook.argument.kind = "object"

----------------------------------------------------------------------------
(* Claims about the cut point of a truncated response                      *)

\* the last full stop or newline among the first max_response_length
\* characters of the text generate was given, as a count of characters kept
\* when the text is cut right after it; 0 when there is none
LastBoundary ==
    LastIndexOf(SubSeq(generated.text, 1, MAX_RESPONSE_LENGTH), {".", "\n"})

\* the text cut after n characters, with the notice
CutAfter(n) == SubSeq(generated.text, 1, n) \o TRUNCATION_NOTICE

Truncated == generated.called /\ Len(generated.text) > MAX_RESPONSE_LENGTH

C31_BoundaryAt80PercentCutAtLimit ==
    /\ Truncated
    /\ LastBoundary = Threshold
    /\ generated.cut = CutAfter(MAX_RESPONSE_LENGTH)

----------------------------------------------------------------------------
(* Claims about the spam rule                                               *)

\* the user messages of the checked session timestamped less than 60
\* seconds before the check
RecentUserMessages(c) ==
    {i \in DOMAIN c.messages :
        /\ c.messages[i].role = "user"
        /\ c.messages[i].timestamp > RuleNow - 60}

\* C32: check_message returns a violation named spam_detected when no
\* earlier rule fires and the session history contains 3 or more user
\* messages timestamped less than 60 seconds before the check; with 2 or
\* fewer such messages the spam rule does not fire.
C32_SpamFromThreeRecent ==
    rulecheck.called =>
        LET matches == RuleMatches(rulecheck)
            n == Cardinality(RecentUserMessages(rulecheck))
        IN  /\ (n >= 3 /\ ~matches[1] /\ ~matches[2] /\ ~matches[3]) =>
                  /\ rulecheck.result.is_violation
                  /\ rulecheck.result.rule_name = "spam_detected"
            /\ n <= 2 => rulecheck.result.rule_name # "spam_detected"

\* three user messages, one of them exactly 60 seconds old: no spam
C32_WitnessTwoRecentOneOld ==
    /\ rulecheck.called
    /\ rulecheck.message = "hola"
    /\ Len(rulecheck.messages) = 3
    /\ \A i \in 1..3 : rulecheck.messages[i].role = "user"
    /\ Cardinality(RecentUserMessages(rulecheck)) = 2
    /\ rulecheck.result.rule_name = "all_rules_passed"

----------------------------------------------------------------------------
(* Claims about the fallback chain                                          *)

\* the chain the adapter of the recorded call was built with
FallbackChain == _get_fallback_providers(llmcall.provider_name, llmcall.keys)

\* the position of a provider in the fixed order [mistral, groq, openai]
OrderOf(p) == CHOOSE i \in DOMAIN FALLBACK_ORDER : FALLBACK_ORDER[i] = p

\* C33: the adapter's fallback chain is the sublist of [mistral, groq,
\* openai] that excludes the primary provider and keeps, in that order,
\* exactly the providers whose API key is configured; the primary provider
\* never appears in its own fallback chain and no provider appears twice.
C33_FallbackChain ==
    llmcall.called =>
        /\ {FallbackChain[i] : i \in DOMAIN FallbackChain}
              = llmcall.keys \ {llmcall.provider_name}
        /\ \A i, j \in DOMAIN FallbackChain :
              i < j => OrderOf(FallbackChain[i]) < OrderOf(FallbackChain[j])
        /\ \A i \in DOMAIN FallbackChain : FallbackChain[i] # llmcall.provider_name
        /\ \E n \in 0..Len(FallbackChain) :
              llmcall.calls = <<llmcall.provider_name>> \o SubSeq(FallbackChain, 1, n)

\* groq is primary, every key is configured and every provider fails: the
\* chain mistral, openai was tried in that order
C33_WitnessBothFallbacksTried ==
    /\ llmcall.called
    /\ llmcall.provider_name = "groq"
    /\ llmcall.keys = {"mistral", "groq", "openai"}
    /\ llmcall.calls = <<"groq", "mistral", "openai">>

----------------------------------------------------------------------------
(* Claims about the cap of a timing series                                  *)

\* the series of a name before and after a step
SeriesBefore(name) == Get(collector._timers, name, <<>>)
SeriesAfter(name)  == Get(collector'._timers, name, <<>>)

\* flow f has made a call in this step
Called(f) == flows'[f].calls = flows[f].calls + 1

\* C36: after any sequence of record_time calls, each timing series holds
\* at most 1000 samples, and they are the most recently recorded samples for
\* that name in recording order (the oldest are dropped first); a series is
\* never shortened for any other reason.
C36_SeriesKeepsLatest1000 ==
    /\ [](\A name \in DOMAIN collector._timers :
            Len(collector._timers[name]) <= MAX_TIMER_SAMPLES)
    /\ [][\A f \in Flows : Called(f) =>
            \A name \in {"latency", "unknown"} :
                IF flows'[f].op = "record_time" /\ flows'[f].name = name
                THEN LET all  == Append(SeriesBefore(name), flows'[f].value)
                         drop == IF Len(all) > MAX_TIMER_SAMPLES
                                 THEN Len(all) - MAX_TIMER_SAMPLES ELSE 0
                     IN  /\ Len(SeriesAfter(name)) = Len(all) - drop
                         /\ \A i \in 1..(Len(all) - drop) :
                               SeriesAfter(name)[i] = all[i + drop]
                ELSE SeriesAfter(name) = SeriesBefore(name)
        ]_vars

\* two samples were recorded on the full series 1, 2, ..., 1000: the two
\* oldest samples are gone and the new ones stand at the end
C36_WitnessOldestDropped ==
    LET times == Get(collector._timers, "latency", <<>>) IN
    /\ flows["f1"].calls = 2
    /\ Len(times) = MAX_TIMER_SAMPLES
    /\ times[1] = 3
    /\ times[MAX_TIMER_SAMPLES - 2] = MAX_TIMER_SAMPLES
    /\ times[MAX_TIMER_SAMPLES - 1] = 2000
    /\ times[MAX_TIMER_SAMPLES] = 0

----------------------------------------------------------------------------
(* Claims about increment and set under interleaving                        *)

\* no call is under way
Quiescent == \A f \in Flows : flows[f].pc \in {"idle", "done"}

\* the calls of one kind that the flows have made, as <<flow, index>> pairs
CallsMade(op) ==
    {fi \in Flows \X (1..MaxCalls) :
        fi[2] <= Len(flows[fi[1]].log) /\ flows[fi[1]].log[fi[2]][1] = op}

RECURSIVE SumOfValues(_)
SumOfValues(calls) ==
    IF calls = {} THEN 0
    ELSE LET fi == CHOOSE x \in calls : TRUE
         IN  flows[fi[1]].log[fi[2]][2] + SumOfValues(calls \ {fi})

\* C37: increment(name, v) adds v to the metric's value and exactly 1 to
\* its call count as one atomic step under the collector's lock, so after
\* any interleaving of n concurrent increment calls on one name the value
\* has grown by the sum of their values and the call count by n; set(name,
\* v) overwrites the value and leaves the call count unchanged.
C37_IncrementsAddUp ==
    /\ [](Quiescent =>
            \A name \in CollectorMetricNames :
                /\ Get(collector._counters, name, 0) =
                       Cardinality(CallsMade("increment"))
                /\ CallsMade("set") = {} =>
                       Get(collector._metrics, name, 0) =
                          SumOfValues(CallsMade("increment")))
    /\ [][\A f \in Flows :
            (flows[f].op = "set" /\ flows[f].pc = "locked"
                                /\ flows'[f].pc = "done") =>
                /\ collector'._metrics[flows[f].name] = flows[f].value
                /\ collector'._counters = collector._counters
        ]_vars

\* four increments by two flows have all returned: the value is the sum of
\* the four values, which are not all the same, and the count is 4
C37_WitnessFourIncrements ==
    /\ Quiescent
    /\ Cardinality(CallsMade("increment")) = 2 * MaxCalls
    /\ \E f \in Flows : flows[f].log[1][2] # flows[f].log[2][2]
    /\ Get(collector._counters, "requests", 0) = 2 * MaxCalls

\* a set ran between two increments of the other flow: the count is still
\* the number of increments
C37_WitnessSetBetween ==
    /\ Quiescent
    /\ flows["f1"].log = <<<<"increment", 1>>, <<"increment", 2>>>>
    /\ flows["f2"].log = <<<<"set", 5>>>>
    /\ Get(collector._metrics, "requests", 0) = 5 + 2
    /\ Get(collector._counters, "requests", 0) = 2

----------------------------------------------------------------------------
(* Claims about the hand-off                                                *)

\* initiate_handoff has been called in this step
HandoffCalled == handoff'.op = "initiate_handoff" /\ handoff'.n = handoff.n + 1

\* C34: initiate_handoff sets the session's state to escalated and returns
\* a result with success true and notification_sent equal to the notifier's
\* success flag; a failed notification still yields success true and is not
\* retried; any exception inside the procedure yields a result with success
\* false, the error description and the session id, and initiate_handoff
\* itself never raises.
C34_HandoffResult ==
    [][HandoffCalled =>
        LET h == handoff' IN
        /\ heap'[h.session].state = "escalated"
        /\ ~h.raised
        /\ IF h.prepared = "raises"
           THEN /\ h.ret = [success |-> FALSE, error |-> "str(e)",
                            session_id |-> heap[h.session].session_id]
                /\ h.notified = <<>>
           ELSE /\ h.ret.success
                /\ h.ret.session_id = heap[h.session].session_id
                /\ h.ret.notification_sent = h.notification.result.success
                /\ Len(h.notified) = 1
    ]_vars

\* the e-mail transport raised: the notification failed after one delivery
\* attempt, and the hand-off still succeeded
C34_WitnessFailedNotification ==
    /\ handoff.op = "initiate_handoff"
    /\ handoff.ret.success
    /\ ~handoff.ret.notification_sent
    /\ Len(handoff.notified) = 1
    /\ handoff.notification.result.deliveries = <<"smtp">>

\* the context could not be prepared: a failure result, nothing notified
C34_WitnessException ==
    /\ handoff.op = "initiate_handoff"
    /\ handoff.prepared = "raises"
    /\ ~handoff.ret.success
    /\ heap[handoff.session].state = "escalated"

\* C35: notify_operator invokes exactly one channel implementation, chosen
\* by the lower-cased configured provider (email, slack or webhook); for an
\* unrecognized provider, or for a selected channel whose required
\* credentials or URL are not configured, it returns a failure result
\* without attempting any delivery; a transport exception is converted to a
\* failure result and no exception escapes notify_operator.
C35_OneChannelOrFailure ==
    handoff.op = "notify_operator" =>
        LET h          == handoff
            lowered    == lower(h.setting)
            recognized == lowered \in {EMAIL, SLACK, WEBHOOK}
            configured ==
                CASE lowered = EMAIL ->
                        /\ ~Not(h.cfg.SMTP_HOST) /\ ~Not(h.cfg.SMTP_USER)
                        /\ ~Not(h.cfg.SMTP_PASSWORD)
                  [] lowered = SLACK -> ~Not(h.cfg.SLACK_WEBHOOK_URL)
                  [] lowered = WEBHOOK -> ~Not(h.cfg.HANDOFF_WEBHOOK_URL)
                  [] OTHER -> FALSE
        IN  /\ ~h.result.raised
            /\ h.channels = (IF recognized THEN <<lowered>> ELSE <<>>)
            /\ (~recognized \/ ~configured) =>
                    ~h.result.success /\ h.result.deliveries = <<>>
            /\ (recognized /\ configured) =>
                    /\ Len(h.result.deliveries) = 1
                    /\ h.result.success = (h.transport = "delivers")
                    /\ h.result.success => h.result.provider = lowered

\* the provider is written SLACK, the URL is set and the POST raises: the
\* slack channel was invoked and the result is a failure
C35_WitnessTransportRaises ==
    /\ handoff.op = "notify_operator"
    /\ handoff.setting = <<"S", "L", "A", "C", "K">>
    /\ handoff.channels = <<SLACK>>
    /\ handoff.transport = "raises"
    /\ handoff.result.deliveries = <<"post to SLACK_WEBHOOK_URL">>
    /\ ~handoff.result.success

\* the provider is email and the SMTP password is the empty string
C35_WitnessUnconfigured ==
    /\ handoff.op = "notify_operator"
    /\ handoff.provider = EMAIL
    /\ handoff.cfg.SMTP_HOST = Str(<<"k">>)
    /\ handoff.cfg.SMTP_PASSWORD = Str(<<>>)
    /\ handoff.result.deliveries = <<>>
    /\ ~handoff.result.success

----------------------------------------------------------------------------
(* Claims about the hand-off signals                                        *)

C40_WitnessShortConversation ==
    /\ handoff.op = "should_handoff"
    /\ handoff.messages = 8
    /\ handoff.last_message = <<"h", "o", "l", "a">>
    /\ ~handoff.ret

----------------------------------------------------------------------------
(* Claims about the catalog loader                                          *)

\* the products of pages 1..k of a server, in page order
RECURSIVE Accumulated(_, _)
Accumulated(server, k) ==
    IF k = 0 THEN <<>>
    ELSE Accumulated(server, k - 1) \o PageProducts(k, server[k].items)

CredentialsMissing == Not(catalog.api_key) \/ Not(catalog.store_id)

\* what the last sync_catalog asked for and returned
SyncAnswered ==
    LET c     == catalog
        pages == Len(c.requests)
        lastp == PageAt(c.server, pages)
    IN  IF CredentialsMissing
        THEN ~c.success /\ c.requests = <<>> /\ c.saves = <<>>
        ELSE /\ pages >= 1
             /\ c.requests = [i \in 1..pages |-> i]
             /\ \A i \in 1..(pages - 1) :
                   /\ PageAt(c.server, i).status = "ok"
                   /\ PageAt(c.server, i).items # <<>>
             /\ lastp.status = "fails" \/ lastp.items = <<>>
             /\ c.success = (lastp.status = "ok")
             /\ IF c.success
                THEN /\ c.saves = <<Accumulated(c.server, pages - 1)>>
                     /\ c.products_count = Len(c.saves[1])
                ELSE c.saves = <<>>

\* C38: sync_catalog returns a failure result without issuing any request
\* when the API key or the store identifier is missing; otherwise it
\* requests pages 1, 2, 3, ... in increasing order until a page is empty and
\* only then persists the accumulated products in a single save; if any
\* page fetch fails it returns a failure result and local storage is left
\* unchanged (no partial catalog is persisted).
C38_SyncCatalog ==
    /\ [](catalog.op = "sync_catalog" => SyncAnswered)
    /\ [][(catalog'.op = "sync_catalog" /\ ~catalog'.success) =>
            catalog'.storage = catalog.storage]_vars

\* page 1 had products and page 2 failed, with a catalog already stored:
\* a failure result, and the stored catalog is the one of the earlier sync
C38_WitnessSecondPageFails ==
    /\ catalog.op = "sync_catalog"
    /\ ~CredentialsMissing
    /\ catalog.requests = <<1, 2>>
    /\ ~catalog.success
    /\ Len(catalog.storage) = 2
    /\ catalog.storage[1] # PageProducts(1, catalog.server[1].items)[1]

\* two pages of products and an empty third page: three requests, one save
C38_WitnessThreeRequests ==
    /\ catalog.op = "sync_catalog"
    /\ catalog.requests = <<1, 2, 3>>
    /\ catalog.success
    /\ catalog.products_count = 4
    /\ Len(catalog.saves) = 1

\* the flagged products of the stored catalog, in catalog order
Flagged == SelectSeq(catalog.storage, LAMBDA p : p.featured)

\* product i of the catalog comes before product j when the catalog is
\* sorted by creation date, most recent first, products of one date in
\* catalog order
Before(i, j) ==
    LET c == catalog.storage IN
    \/ c[i].created_at > c[j].created_at
    \/ c[i].created_at = c[j].created_at /\ i < j

\* the k-th most recent product
MostRecent(k) ==
    LET c == catalog.storage IN
    c[CHOOSE j \in DOMAIN c :
        Cardinality({i \in DOMAIN c : Before(i, j)}) = k - 1]

FeaturedAsked == catalog.op = "get_featured_products"

AtMostLimit == Len(catalog.ret) <= catalog.limit

EnoughFlagged ==
    Len(Flagged) >= catalog.limit =>
        catalog.ret = SubSeq(Flagged, 1, catalog.limit)

\* C39: get_featured_products(limit) returns at most limit products; when
\* at least limit products are flagged featured it returns the first limit
\* of them in catalog order; when fewer than limit are flagged, the flagged
\* products are kept and the result is padded from the full catalog sorted
\* by creation date descending, truncated to limit.
C39_FlaggedKeptAndPadded ==
    FeaturedAsked =>
        /\ AtMostLimit
        /\ EnoughFlagged
        /\ Len(Flagged) < catalog.limit =>
              /\ SubSeq(catalog.ret, 1, Len(Flagged)) = Flagged
              /\ \A k \in (Len(Flagged) + 1)..Len(catalog.ret) :
                    \E i \in DOMAIN catalog.storage :
                        catalog.ret[k] = catalog.storage[i]

\* C39 as amended: when fewer than limit products are flagged, the result
\* is the first limit products of the full catalog sorted by creation date
\* descending, flagged or not
C39_FewerFlaggedMostRecent ==
    FeaturedAsked =>
        /\ AtMostLimit
        /\ EnoughFlagged
        /\ Len(Flagged) < catalog.limit =>
              LET n == IF catalog.limit < Len(catalog.storage)
                       THEN catalog.limit ELSE Len(catalog.storage)
              IN  catalog.ret = [k \in 1..n |-> MostRecent(k)]

\* one product is flagged, the limit is 2 and two other products are more
\* recent: the flagged product is not in the result
C39_WitnessFlaggedDropped ==
    /\ FeaturedAsked
    /\ catalog.limit = 2
    /\ Len(Flagged) = 1
    /\ Len(catalog.ret) = 2
    /\ \A k \in 1..2 : ~catalog.ret[k].featured

\* two products are flagged and the limit is 2
C39_WitnessEnoughFlagged ==
    /\ FeaturedAsked
    /\ catalog.limit = 2
    /\ Len(Flagged) = 2
    /\ Len(catalog.storage) = 4
    /\ catalog.ret = Flagged

====
